---- MODULE Spec2Model ----
(***************************************************************************)
(* A model of the buzz-brief backend (src/backend/app): the script         *)
(* generator with its retry loop, the pipeline orchestrator process_email  *)
(* with its fallback video, the concurrent batch, the /process-email       *)
(* endpoint and the preserve-history batch endpoint over the database      *)
(* client, the other endpoints of main.py (batch, Gmail, webhook, health), *)
(* assemble_video with the files it makes and removes, the two database    *)
(* clients called directly, and the MetricsCollector of monitoring.py.     *)
(*                                                                         *)
(* Python strings are sequences of one-character strings, so that slicing  *)
(* ([:150]), strip and len are computed and not assumed.  A value that is  *)
(* not a string (a missing key, None) is a one-element sequence holding a  *)
(* marker no character equals.                                             *)
(***************************************************************************)
EXTENDS Integers, Sequences, FiniteSets, TLC

VARIABLES
    \* ---- environment shared by the components
    openai_client,   \* the model/speech client: "none" | "raising" | "live"
    stage_faults,    \* whether a stage may raise an exception of its own accord
    \* ---- generate_script_with_retry, one call
    sg_pc,           \* position in the retry loop
    sg_email,        \* the email_data argument
    sg_max_retries,  \* the max_retries argument
    sg_attempt,      \* the loop variable attempt
    sg_calls,        \* number of generate_script calls made
    sg_log,          \* outcome kind of each generate_script call, in order
    sg_values,       \* what each generate_script call returned (Absent: it raised)
    sg_model_calls,  \* number of calls that reached the model client
    sg_sleeps,       \* the asyncio.sleep delays, in order
    sg_result,       \* the returned script
    \* ---- process_email, one coroutine per item of email_list
    entry,           \* who runs them: "direct" | "http" | "batch"
    email_list,      \* the raw inputs
    pc,              \* position of each coroutine
    parsed_email,    \* its parsed_email
    script,          \* its script
    audio_url,       \* its audio_url
    calls,           \* the calls it made to the stages, in order
    result,          \* how it ended: returned a value or raised
    http_response,   \* the answer of POST /process-email
    batch_result,    \* what process_email_batch returned or raised
    \* ---- supabase_client_simple and POST /convert-emails-to-videos-batch
    supabase,        \* the module's client: "none" | "connected"
    unique_email_id, \* whether the emails table rejects a repeated email_id
    emails_table,    \* the rows of the emails table, in insertion order
    videos_table,    \* the rows of the videos table
    cv_request,      \* request['emails'] of the calls
    cv_pc,           \* position of the handler: "idle" | "loop"
    cv_i,            \* the loop variable i (from 1)
    cv_results,      \* the handler's results list
    cv_successful_count, \* the handler's successful_count
    cv_responses,    \* the answers of the finished calls, in order
    \* ---- one request to one of the other endpoints of main.py
    rq_endpoint,     \* its path
    rq_input,        \* its body, and what its surroundings will answer
    rq_pc,           \* position of the handler: "idle" | "start" | ... | "done"
    rq_effects,      \* the calls the handler made to the outside, in order
    rq_response,     \* its answer: [status, body]
    \* ---- assemble_video in detail: the calls of the requests in flight
    av,              \* per call: arguments, position, locals, temp_files, result
    fs,              \* the files that exist (/tmp and the assets directory)
    av_clock,        \* time.time() in milliseconds
    av_running,      \* the call the event loop is running, 0 for none
    \* ---- the database clients called directly (supabase_client*.py)
    db_last,         \* the last operation called: [client, op, result]
    db_count,        \* the number of operations called
    db_requests,     \* the number of requests the backend has received
    \* ---- the MetricsCollector instance of monitoring.py
    mt_counters,     \* self.counters: key -> total
    mt_gauges,       \* self.gauges: key -> value
    mt_histograms,   \* self.histograms: key -> list of samples
    mt_recorded,     \* key -> every sample ever recorded for it, in order
    mt_stats,        \* what the last get_stats returned
    mt_ops           \* the number of calls made to the collector

sgVars == <<sg_pc, sg_email, sg_max_retries, sg_attempt, sg_calls, sg_log, sg_values,
            sg_model_calls, sg_sleeps, sg_result>>

envVars == <<openai_client, stage_faults>>

taskVars == <<pc, parsed_email, script, audio_url, calls, result>>

peVars == <<entry, email_list, taskVars, http_response, batch_result>>

dbVars == <<supabase, unique_email_id, emails_table, videos_table>>

cvVars == <<cv_request, cv_pc, cv_i, cv_results, cv_successful_count, cv_responses>>

rqVars == <<rq_endpoint, rq_input, rq_pc, rq_effects, rq_response>>

avVars == <<av, fs, av_clock, av_running>>

dlVars == <<db_last, db_count, db_requests>>

mtVars == <<mt_counters, mt_gauges, mt_histograms, mt_recorded, mt_stats, mt_ops>>

vars == <<envVars, avVars, dlVars, mtVars, sgVars, peVars, dbVars, cvVars, rqVars>>

----------------------------------------------------------------------------
(* Bounds of the model *)

\* generate_script_with_retry is explored for max_retries in 0..MaxRetriesArg
MaxRetriesArg == 3
\* length of the long sender used to make the fallback overflow 150 characters
LongFromLen == 140
\* length of the long subject
LongSubjectLen == 20
\* length of the over-long model response
LongResponseLen == 160
\* length of the over-long email body
LongBodyLen == 505
\* process_email_batch is explored for lists of at most MaxBatch emails
MaxBatch == 2
\* a body of POST /convert-emails-to-videos-batch holds at most this many emails
MaxRequestEmails == 2
\* the same body is posted at most this many times
MaxRequests == 2
\* POST /process-emails is tried with up to BatchLimit + MaxOverLimit emails
MaxOverLimit == 2
\* the Gmail message list holds at most this many messages
MaxGmailMessages == 2
\* the millisecond clock read by assemble_video runs from 1 to MaxClock
MaxClock == 2
\* the database clients are called directly at most this many times
MaxDbOps == 3
\* the metrics collector is called at most this many times
MaxMetricOps == 3

(* Program constants *)

\* script_generator.py: every script is cut to 150 characters
ScriptMaxLen == 150
\* script_generator.py:195 an over-long response keeps its first 147 characters
CleanKeepLen == 147
\* script_generator.py:166 a script of fewer than 5 characters is rejected
MinScriptLen == 5
\* video_generator.py:62 process_email retries the script three times
PipelineMaxRetries == 3
\* email_parser.py:46 a body is cut to 500 characters
BodyMaxLen == 500
\* main.py:778, the cap of POST /process-emails
BatchLimit == 50
\* monitoring.py:188 and 203, the usage from which a check warns
WarnPercent == 90
\* a histogram keeps its last 1000 samples
HistogramCap == 1000

----------------------------------------------------------------------------
(* Python values *)

Absent == <<"<absent>">>
NoneVal == <<"<None>">>

Rep(c, n) == [i \in 1..n |-> c]

Min(a, b) == IF a < b THEN a ELSE b

\* s[:n]
Take(s, n) == SubSeq(s, 1, Min(n, Len(s)))

\* dict.get(key, default) on a dict held as a function from keys to values
Get(d, k, default) == IF d[k] = Absent THEN default ELSE d[k]

\* bool(x) is False: a missing/None value or the empty string
Falsy(x) == x = Absent \/ x = NoneVal \/ x = <<>>

\* the subsequence of s at the positions in K, in order
Marked(e) == e[2]

Pick(s, K) ==
    LET kept == SelectSeq([i \in 1..Len(s) |-> <<s[i], i \in K>>], Marked)
    IN [j \in 1..Len(kept) |-> kept[j][1]]

\* str.strip(): drop the leading and trailing blanks
Strip(s) ==
    IF s = <<>> \/ (s[1] # " " /\ s[Len(s)] # " ") THEN s
    ELSE
    LET inked == {i \in 1..Len(s) : s[i] # " "}
    IN IF inked = {} THEN <<>>
       ELSE LET lo == CHOOSE i \in inked : \A x \in inked : i <= x
                hi == CHOOSE i \in inked : \A x \in inked : x <= i
            IN SubSeq(s, lo, hi)

\* re.sub(r'\s+', ' ', s): a run of blanks keeps its first blank
CollapseSpaces(s) ==
    LET keep == {i \in 1..Len(s) : ~(s[i] = " " /\ i > 1 /\ s[i - 1] = " ")}
    IN IF Cardinality(keep) = Len(s) THEN s ELSE Pick(s, keep)

RECURSIVE Pow2(_)
Pow2(n) == IF n = 0 THEN 1 ELSE 2 * Pow2(n - 1)

\* the text of str(x) inside an f-string
Fmt(x) == IF x = NoneVal THEN <<"N", "o", "n", "e">> ELSE x

----------------------------------------------------------------------------
(* String literals of the source *)

S_NewEmailFrom == <<"N","e","w"," ","e","m","a","i","l"," ","f","r","o","m"," ">>
S_ColonSpace == <<":", " ">>
S_Unknown == <<"U","n","k","n","o","w","n">>
S_someone == <<"s","o","m","e","o","n","e">>
S_NoSubject == <<"N","o"," ","s","u","b","j","e","c","t">>
S_Ellipsis == <<".", ".", ".">>
S_Quote == "\""

----------------------------------------------------------------------------
(* Inputs of the script generator *)

ShortFrom == <<"b","o","s","s","@","c","o">>
LongFrom == Rep("f", LongFromLen)
ShortSubject == <<"H","i">>
LongSubject == Rep("s", LongSubjectLen)
SomeBody == <<"h","e","l","l","o">>

FromValues == {Absent, ShortFrom, LongFrom}
SubjectValues == {Absent, <<>>, S_NoSubject, ShortSubject, LongSubject}
BodyValues == {<<>>, SomeBody}

MkEmail(id, from, subject, body) ==
    [k \in {"id", "from", "subject", "body"} |->
        CASE k = "id" -> id
          [] k = "from" -> from
          [] k = "subject" -> subject
          [] k = "body" -> body]

E1 == <<"e", "1">>

ScriptEmails ==
    {MkEmail(E1, f, s, b) : f \in FromValues, s \in SubjectValues, b \in BodyValues}

\* what the model client does on one call: it raises, or it answers with a text
GoodResponse == <<"B","o","s","s"," ","w","a","n","t","s"," ","a"," ","m","e","e","t","i","n","g">>
QuotedResponse == <<S_Quote>> \o <<" ","G","r","e","a","t"," "," ","n","e","w","s"," ">> \o <<S_Quote>>
ShortResponse == <<" ", "H", "i", " ">>
LongResponse == Rep("A", LongResponseLen)

Responses == {GoodResponse, QuotedResponse, ShortResponse, LongResponse, <<>>}

Raises == [kind |-> "raises", content |-> <<>>]

ClientBehaviours(client) ==
    IF client = "raising" THEN {Raises}
    ELSE {Raises} \cup {[kind |-> "responds", content |-> c] : c \in Responses}

----------------------------------------------------------------------------
(* script_generator.py *)

clean_script(text) ==
    IF text = <<>> THEN <<>>
    ELSE LET s1 == Strip(text)
             s2 == IF Len(s1) >= 1 /\ s1[1] = S_Quote /\ s1[Len(s1)] = S_Quote
                   THEN SubSeq(s1, 2, Len(s1) - 1)
                   ELSE s1
             s3 == Strip(CollapseSpaces(s2))
         IN IF Len(s3) > ScriptMaxLen THEN Take(s3, CleanKeepLen) \o S_Ellipsis ELSE s3

validate_script(text) ==
    /\ text # <<>>
    /\ Len(text) <= ScriptMaxLen
    /\ Len(Strip(text)) >= MinScriptLen

\* mutant of ScriptFallback: the [:150] is missing
ScriptFallbackUntruncated(email) ==
    S_NewEmailFrom \o Fmt(Get(email, "from", S_someone)) \o S_ColonSpace
        \o Fmt(Get(email, "subject", <<>>))

\* the fallback of generate_script's except branch and of the retry loop
ScriptFallback(email) ==
    Take(S_NewEmailFrom \o Fmt(Get(email, "from", S_someone)) \o S_ColonSpace
            \o Fmt(Get(email, "subject", <<>>)),
         ScriptMaxLen)

\* the short-circuit for an email with no body and no real subject
IsEmptyEmail(email) ==
    /\ Falsy(Get(email, "body", NoneVal))
    /\ \/ Falsy(Get(email, "subject", NoneVal))
       \/ Get(email, "subject", NoneVal) = S_NoSubject

\* mutant of generate_script: no catch-all, a raising client is passed on as
\* a generation failure
generate_script_no_catch_all(email, client, b) ==
    IF IsEmptyEmail(email)
    THEN [kind |-> "returned",
          script |-> Take(S_NewEmailFrom \o Fmt(Get(email, "from", S_Unknown)), ScriptMaxLen),
          model_called |-> FALSE]
    ELSE IF client = "none" \/ b.kind = "raises"
    THEN [kind |-> "GenerationFailed", script |-> <<>>, model_called |-> client # "none"]
    ELSE LET cleaned == clean_script(Strip(b.content))
         IN IF validate_script(cleaned)
            THEN [kind |-> "returned", script |-> cleaned, model_called |-> TRUE]
            ELSE [kind |-> "GenerationFailed", script |-> <<>>, model_called |-> TRUE]

\* one call of generate_script: [kind |-> "returned" | "GenerationFailed",
\*  script, model_called]

generate_script(email, client, b) ==
    IF IsEmptyEmail(email)
    THEN [kind |-> "returned",
          script |-> Take(S_NewEmailFrom \o Fmt(Get(email, "from", S_Unknown)), ScriptMaxLen),
          model_called |-> FALSE]
    ELSE IF client = "none"
    THEN [kind |-> "GenerationFailed", script |-> <<>>, model_called |-> FALSE]
    ELSE IF b.kind = "raises"
    THEN [kind |-> "returned", script |-> ScriptFallback(email), model_called |-> TRUE]
    ELSE LET cleaned == clean_script(Strip(b.content))
         IN IF validate_script(cleaned)
            THEN [kind |-> "returned", script |-> cleaned, model_called |-> TRUE]
            ELSE [kind |-> "GenerationFailed", script |-> <<>>, model_called |-> TRUE]

----------------------------------------------------------------------------
(* email_parser.py *)

S_UnknownSender == <<"U","n","k","n","o","w","n"," ","s","e","n","d","e","r">>
S_NewEmail == <<"N","e","w"," ","E","m","a","i","l">>
S_unknown == <<"u","n","k","n","o","w","n">>
K_SentFromMy == <<"s","e","n","t"," ","f","r","o","m"," ","m","y">>
K_GetOutlookFor == <<"g","e","t"," ","o","u","t","l","o","o","k"," ","f","o","r">>
K_On == <<"o","n"," ">>
K_Wrote == <<" ","w","r","o","t","e",":">>
K_BestRegards == <<"b","e","s","t"," ","r","e","g","a","r","d","s">>
K_Sincerely == <<"s","i","n","c","e","r","e","l","y">>
K_ThankYou == <<"t","h","a","n","k"," ","y","o","u">>
K_Thanks == <<"t","h","a","n","k","s">>
K_DashDash == <<"-", "-">>
UpperLetters == <<"A","B","C","D","E","F","G","H","I","J","K","L","M","N","O","P","Q","R","S","T","U","V","W","X","Y","Z">>
LowerLetters == <<"a","b","c","d","e","f","g","h","i","j","k","l","m","n","o","p","q","r","s","t","u","v","w","x","y","z">>

\* the id parse_email makes up for an email without one (str(uuid.uuid4()))
S_Uuid4 == <<"<uuid4>">>

\* the j-th smallest element of a set of positions
Nth(K, j) == CHOOSE i \in K : Cardinality({x \in K : x <= i}) = j

\* str.lower()
Lower(s) ==
    [i \in 1..Len(s) |->
        IF \E k \in 1..Len(UpperLetters) : UpperLetters[k] = s[i]
        THEN LowerLetters[CHOOSE k \in 1..Len(UpperLetters) : UpperLetters[k] = s[i]]
        ELSE s[i]]

\* sub in s
Contains(s, sub) ==
    \E i \in 1..(Len(s) - Len(sub) + 1) : SubSeq(s, i, i + Len(sub) - 1) = sub

\* re.search('on .* wrote:', s)
MatchesOnWrote(s) ==
    \E i \in 1..(Len(s) - Len(K_On) + 1) :
        /\ SubSeq(s, i, i + Len(K_On) - 1) = K_On
        /\ \E j \in (i + Len(K_On))..(Len(s) - Len(K_Wrote) + 1) :
              SubSeq(s, j, j + Len(K_Wrote) - 1) = K_Wrote

\* BeautifulSoup(body, 'html.parser').get_text() on text whose only markup is
\* well-formed tags: everything from a "<" to the next ">" is dropped
get_text(s) ==
    IF \A i \in 1..Len(s) : s[i] # "<" THEN s
    ELSE Pick(s, {i \in 1..Len(s) :
                    Cardinality({j \in 1..i : s[j] = "<"})
                        <= Cardinality({j \in 1..(i - 1) : s[j] = ">"})})

\* text.split('\n')
SplitLines(s) ==
    LET nl == {i \in 1..Len(s) : s[i] = "\n"}
        n == Cardinality(nl) + 1
    IN [k \in 1..n |->
          SubSeq(s,
                 IF k = 1 THEN 1 ELSE Nth(nl, k - 1) + 1,
                 IF k = n THEN Len(s) ELSE Nth(nl, k) - 1)]

is_signature_line(line) ==
    LET line_lower == Lower(line) IN
    \/ Contains(line_lower, K_SentFromMy)
    \/ Contains(line_lower, K_GetOutlookFor)
    \/ MatchesOnWrote(line_lower)
    \/ line_lower = K_DashDash
    \/ Contains(line_lower, K_BestRegards)
    \/ Contains(line_lower, K_Sincerely)
    \/ Contains(line_lower, K_ThankYou)
    \/ Contains(line_lower, K_Thanks)
    \/ Strip(line_lower) = <<>>

\* ' '.join(lines)
RECURSIVE JoinLines(_)
JoinLines(lines) ==
    IF lines = <<>> THEN <<>>
    ELSE IF Len(lines) = 1 THEN lines[1]
    ELSE lines[1] \o <<" ">> \o JoinLines(Tail(lines))

KeepLine(line) ==
    ~(line # <<>> /\ line[1] = ">") /\ ~is_signature_line(line)

clean_email_body(body) ==
    IF Falsy(body) THEN <<>>
    ELSE LET lines == SplitLines(get_text(body))
             stripped == [k \in 1..Len(lines) |-> Strip(lines[k])]
             clean_lines == SelectSeq(stripped, KeepLine)
         IN Strip(CollapseSpaces(JoinLines(clean_lines)))

\* dict.get(key) or default
GetOr(d, k, default) == IF Falsy(d[k]) THEN default ELSE d[k]

\* parse_email on a dict (the caller has dealt with None and with a non-dict)
parse_email(email_data) ==
    MkEmail(GetOr(email_data, "id", S_Uuid4),
            Get(email_data, "from", S_Unknown),
            Get(email_data, "subject", S_NoSubject),
            Take(clean_email_body(Get(email_data, "body", <<>>)), BodyMaxLen))

----------------------------------------------------------------------------
(* video_assembly.py: generate_audio and assemble_video, as far as their     *)
(* callers see them                                                          *)

\* paths and URLs are never sliced: each is a sequence of path pieces
DefaultAudio == <<"assets/default_audio.mp3">>
StaticFallbackVideo == <<"assets/fallback_video.mp4">>
\* the storage location of a narration, audio/{uuid}.mp3
UploadedAudio == <<"audio/<uuid4>.mp3">>
\* the storage location of the video of an email, videos/video_{id}_{ms}.mp4
VideoUrl(email_id) == <<"videos/video_">> \o email_id \o <<"_<ms>.mp4">>

Returned(v) == [kind |-> "returned", value |-> v]
Raised(e) == [kind |-> "raised", value |-> <<e>>]

\* tts_ok: the speech call and the upload went through
generate_audio(text, client, tts_ok) ==
    IF Falsy(text) \/ Len(Strip(text)) < MinScriptLen THEN DefaultAudio
    ELSE IF client = "none" THEN DefaultAudio
    ELSE IF tts_ok THEN UploadedAudio
    ELSE DefaultAudio

validate_video_inputs(audio, email_data) ==
    /\ ~Falsy(audio)
    /\ ~Falsy(email_data["id"])

\* ffmpeg_ok: download, media command and upload went through
assemble_video(audio, email_data, ffmpeg_ok) ==
    IF ~validate_video_inputs(audio, email_data) THEN Raised("VideoAssemblyError")
    ELSE IF ffmpeg_ok THEN Returned(VideoUrl(email_data["id"]))
    ELSE Raised("VideoAssemblyError")

----------------------------------------------------------------------------
(* script_generator.py: generate_script_with_retry as a function of what the *)
(* model client does on each attempt                                         *)

generate_script_with_retry(email, max_retries, client, bs) ==
    LET ok == {k \in 1..max_retries : generate_script(email, client, bs[k]).kind = "returned"}
    IN IF ok = {} THEN ScriptFallback(email)
       ELSE generate_script(email, client, bs[Nth(ok, 1)]).script

----------------------------------------------------------------------------
(* video_generator.py *)

Call(fn, within, args, res) == [fn |-> fn, within |-> within, args |-> args, result |-> res]

\* a raw input: what kind of Python value it is, and for a dict or another
\* mapping its items
Raw(kind, data) == [kind |-> kind, data |-> data]

NoData == MkEmail(Absent, Absent, Absent, Absent)

\* has a .get method: a dict, or a mapping that is no dict (a MappingProxyType,
\* a UserDict); None, a str, a list have none
HasGet(raw) == raw.kind \in {"dict", "mapping"}

Faults == IF stage_faults THEN {FALSE, TRUE} ELSE {FALSE}

TtsOutcomes == IF openai_client = "live" THEN {FALSE, TRUE} ELSE {FALSE}

\* mutant of get_fallback_video: no catch-all, a failed assembly gets out
get_fallback_video_reraises(email_data, ffmpeg_ok, fault) ==
    LET minimal_email == MkEmail(Get(email_data.data, "id", S_unknown),
                                 Get(email_data.data, "from", S_UnknownSender),
                                 S_NewEmail, <<>>)
        a == IF fault THEN Raised("Exception")
             ELSE assemble_video(DefaultAudio, minimal_email, ffmpeg_ok)
    IN [ret |-> a,
        calls |-> <<Call("assemble_video", "get_fallback_video",
                         <<DefaultAudio, minimal_email, <<>>>>, a)>>]

\* mutant of get_fallback_video: assembles the email it was given, not a
\* minimal one
get_fallback_video_whole_email(email_data, ffmpeg_ok, fault) ==
    LET a == IF fault THEN Raised("Exception")
             ELSE assemble_video(DefaultAudio, email_data.data, ffmpeg_ok)
    IN [ret |-> IF a.kind = "returned" THEN a ELSE Returned(StaticFallbackVideo),
        calls |-> <<Call("assemble_video", "get_fallback_video",
                         <<DefaultAudio, email_data.data, <<>>>>, a)>>]

\* get_fallback_video: what it returns and the calls it makes.  fault: the
\* assemble call raises something that is no VideoAssemblyError

get_fallback_video(email_data, ffmpeg_ok, fault) ==
    IF ~HasGet(email_data)
    THEN [ret |-> Returned(StaticFallbackVideo), calls |-> <<>>]
    ELSE LET minimal_email == MkEmail(Get(email_data.data, "id", S_unknown),
                                      Get(email_data.data, "from", S_UnknownSender),
                                      S_NewEmail, <<>>)
             a == IF fault THEN Raised("Exception")
                  ELSE assemble_video(DefaultAudio, minimal_email, ffmpeg_ok)
         IN [ret |-> IF a.kind = "returned" THEN a ELSE Returned(StaticFallbackVideo),
             calls |-> <<Call("assemble_video", "get_fallback_video",
                              <<DefaultAudio, minimal_email, <<>>>>, a)>>]

Tasks == 1..Len(email_list)

\* lines 31-58: the id lookup, the parse stage and its logging
PE_Parse(i) ==
    /\ pc[i] = "start"
    /\ LET raw == email_list[i] IN
       IF ~HasGet(raw)
       THEN \* email_data.get(...) on line 31, before the try
            /\ result' = [result EXCEPT ![i] = Raised("AttributeError")]
            /\ pc' = [pc EXCEPT ![i] = "done"]
            /\ UNCHANGED <<parsed_email, calls>>
       ELSE IF raw.kind # "dict"
       THEN \* parse_email raises EmailParseError
            /\ calls' = [calls EXCEPT ![i] =
                  Append(@, Call("parse_email", "process_email", <<raw>>,
                                 Raised("EmailParseError")))]
            /\ pc' = [pc EXCEPT ![i] = "fallback_parse_failed"]
            /\ UNCHANGED <<parsed_email, result>>
       ELSE LET parsed == parse_email(raw.data) IN
            /\ calls' = [calls EXCEPT ![i] =
                  Append(@, Call("parse_email", "process_email", <<raw>>,
                                 Returned(parsed)))]
            /\ parsed_email' = [parsed_email EXCEPT ![i] = parsed]
            \* len(parsed_email['subject']) on line 48 raises on a None subject
            /\ pc' = [pc EXCEPT ![i] =
                  IF parsed["subject"] = NoneVal THEN "fallback_last" ELSE "script"]
            /\ UNCHANGED result
    /\ UNCHANGED <<script, audio_url>>

\* mutant of ScriptStage: a script failure ends the primary path
ScriptStageAborts(i, r) ==
    /\ calls' = [calls EXCEPT ![i] =
          Append(@, Call("generate_script_with_retry", "process_email",
                         <<parsed_email[i], PipelineMaxRetries>>, r))]
    /\ script' = [script EXCEPT ![i] = IF r.kind = "returned" THEN r.value ELSE @]
    /\ pc' = [pc EXCEPT ![i] = IF r.kind = "returned" THEN "audio" ELSE "fallback_last"]
    /\ UNCHANGED <<parsed_email, audio_url, result>>

\* lines 60-74: the script stage
ScriptStage(i, r) ==
    /\ script' = [script EXCEPT ![i] =
          IF r.kind = "returned" THEN r.value
          ELSE S_NewEmailFrom \o Fmt(Get(parsed_email[i], "from", S_someone))]
    /\ calls' = [calls EXCEPT ![i] =
          Append(@, Call("generate_script_with_retry", "process_email",
                         <<parsed_email[i], PipelineMaxRetries>>, r))]
    /\ pc' = [pc EXCEPT ![i] = "audio"]
    /\ UNCHANGED <<parsed_email, audio_url, result>>

PE_Script(i) ==
    /\ pc[i] = "script"
    /\ \E fault \in Faults :
       \E bs \in [1..PipelineMaxRetries -> ClientBehaviours(openai_client)] :
          ScriptStage(i, IF fault THEN Raised("Exception")
                         ELSE Returned(generate_script_with_retry(
                                  parsed_email[i], PipelineMaxRetries, openai_client, bs)))

\* mutant of AudioStage: the narration made is dropped for the default one
AudioStageDropsResult(i, r) ==
    /\ audio_url' = [audio_url EXCEPT ![i] = DefaultAudio]
    /\ calls' = [calls EXCEPT ![i] =
          Append(@, Call("generate_audio", "process_email", <<script[i]>>, r))]
    /\ pc' = [pc EXCEPT ![i] = "assemble"]
    /\ UNCHANGED <<parsed_email, script, result>>

\* lines 76-89: the audio stage
AudioStage(i, r) ==
    /\ audio_url' = [audio_url EXCEPT ![i] =
          IF r.kind = "returned" THEN r.value ELSE DefaultAudio]
    /\ calls' = [calls EXCEPT ![i] =
          Append(@, Call("generate_audio", "process_email", <<script[i]>>, r))]
    /\ pc' = [pc EXCEPT ![i] = "assemble"]
    /\ UNCHANGED <<parsed_email, script, result>>

PE_Audio(i) ==
    /\ pc[i] = "audio"
    /\ \E fault \in Faults : \E tts_ok \in TtsOutcomes :
          AudioStage(i, IF fault THEN Raised("Exception")
                        ELSE Returned(generate_audio(script[i], openai_client, tts_ok)))

\* lines 91-120: the assembly stage
AssemblyStage(i, r) ==
    /\ calls' = [calls EXCEPT ![i] =
          Append(@, Call("assemble_video", "process_email",
                         <<audio_url[i], parsed_email[i], <<>>>>, r))]
    /\ IF r.kind = "returned"
       THEN /\ result' = [result EXCEPT ![i] = r]
            /\ pc' = [pc EXCEPT ![i] = "done"]
       ELSE /\ pc' = [pc EXCEPT ![i] =
                  IF r.value = <<"VideoAssemblyError">>
                  THEN "fallback_assembly_failed" ELSE "fallback_last"]
            /\ UNCHANGED result
    /\ UNCHANGED <<parsed_email, script, audio_url>>

PE_Assemble(i) ==
    /\ pc[i] = "assemble"
    /\ \E fault \in Faults : \E ffmpeg_ok \in BOOLEAN :
          AssemblyStage(i, IF fault THEN Raised("Exception")
                           ELSE assemble_video(audio_url[i], parsed_email[i], ffmpeg_ok))

\* mutants of FallbackArg: always the raw input; always the parsed email
FallbackArgAlwaysRaw(i) == email_list[i]

FallbackArgAlwaysParsed(i) == Raw("dict", parsed_email[i])

\* the argument of the get_fallback_video call at each of its three call sites
FallbackArg(i) ==
    IF pc[i] = "fallback_assembly_failed"
    THEN Raw("dict", parsed_email[i])
    ELSE email_list[i]

\* lines 58, 120 and 122-143: a get_fallback_video call and what follows it
FallbackStage(i, f) ==
    /\ calls' = [calls EXCEPT ![i] =
          @ \o <<Call("get_fallback_video", "process_email", <<FallbackArg(i)>>, f.ret)>>
            \o f.calls]
    /\ IF f.ret.kind = "returned"
       THEN /\ result' = [result EXCEPT ![i] = f.ret]
            /\ pc' = [pc EXCEPT ![i] = "done"]
       ELSE IF pc[i] = "fallback_last"
       THEN /\ result' = [result EXCEPT ![i] = Raised("VideoGenerationError")]
            /\ pc' = [pc EXCEPT ![i] = "done"]
       ELSE /\ pc' = [pc EXCEPT ![i] = "fallback_last"]
            /\ UNCHANGED result
    /\ UNCHANGED <<parsed_email, script, audio_url>>

PE_Fallback(i) ==
    /\ pc[i] \in {"fallback_parse_failed", "fallback_assembly_failed", "fallback_last"}
    /\ \E fault \in Faults : \E ffmpeg_ok \in BOOLEAN :
          FallbackStage(i, get_fallback_video(FallbackArg(i), ffmpeg_ok, fault))

PE_Step(i) ==
    /\ \/ PE_Parse(i)
       \/ PE_Script(i)
       \/ PE_Audio(i)
       \/ PE_Assemble(i)
       \/ PE_Fallback(i)
    /\ UNCHANGED <<envVars, avVars, dlVars, mtVars, dbVars, cvVars, rqVars, sgVars, entry, email_list, http_response, batch_result>>

----------------------------------------------------------------------------
(* main.py: POST /process-email *)

NoResponse == [status |-> 0, success |-> FALSE, video_url |-> <<>>]

process_single_email(res) ==
    IF res.kind = "raised"
    THEN [status |-> 500, success |-> FALSE, video_url |-> <<>>]
    ELSE IF ~Falsy(res.value)
    THEN [status |-> 200, success |-> TRUE, video_url |-> res.value]
    ELSE [status |-> 500, success |-> FALSE, video_url |-> <<>>]

HTTP_Respond ==
    /\ entry = "http"
    /\ pc[1] = "done"
    /\ http_response = NoResponse
    /\ http_response' = process_single_email(result[1])
    /\ UNCHANGED <<envVars, avVars, dlVars, mtVars, dbVars, cvVars, rqVars, sgVars, entry, email_list, taskVars, batch_result>>

----------------------------------------------------------------------------
(* video_generator.py: process_email_batch, after asyncio.gather *)

Pending == [kind |-> "pending", value |-> <<>>]

IsFailure(res) == res.kind = "raised" \/ Falsy(res.value)

Summary(n, results) ==
    LET good == {i \in 1..n : ~IsFailure(results[i])}
        successful == Cardinality(good)
    IN [total |-> n,
        successful |-> successful,
        failed |-> n - successful,
        \* successful / len(email_list), kept as the fraction; 0 for no emails
        success_rate |-> IF n > 0 THEN <<successful, n>> ELSE <<0, 1>>,
        video_urls |-> [j \in 1..successful |-> results[Nth(good, j)].value]]

\* lines 204-232: email_list[i].get(...) on line 210 needs a .get on every item
process_email_batch(list, results) ==
    IF \E i \in 1..Len(list) : ~HasGet(list[i])
    THEN Raised("AttributeError")
    ELSE Returned(Summary(Len(list), results))

Batch_Analyze ==
    /\ entry = "batch"
    /\ \A i \in Tasks : pc[i] = "done"
    /\ batch_result = Pending
    /\ batch_result' = process_email_batch(email_list, result)
    /\ UNCHANGED <<envVars, avVars, dlVars, mtVars, dbVars, cvVars, rqVars, sgVars, entry, email_list, taskVars, http_response>>

----------------------------------------------------------------------------
(* supabase_client_simple.py and POST /convert-emails-to-videos-batch *)

M1 == <<"m", "1">>
M2 == <<"m", "2">>
S_NoSubjectCap == <<"N","o"," ","S","u","b","j","e","c","t">>
S_NoContent == <<"N","o"," ","c","o","n","t","e","n","t">>

\* a Gmail-shaped email of the request
GEmail(email_id, subject, body) ==
    [email_id |-> email_id, subject |-> subject, body |-> body]

\* d.get(k): None for a missing key
GetNone(d, k) == Get(d, k, NoneVal)

\* the insert of save_email: refused when the table keeps email_id unique and
\* has a row with this (non-null) email_id
InsertRefused(record) ==
    /\ unique_email_id
    /\ record.email_id # NoneVal
    /\ \E k \in 1..Len(emails_table) : emails_table[k].email_id = record.email_id

\* mutant of save_email: no is_supabase_available() guard
save_email_unguarded(email_data) ==
    LET email_record == [email_id |-> email_data.id,
                         subject |-> email_data.subject,
                         body |-> email_data.body]
        row == [id |-> Len(emails_table) + 1] @@ email_record
    IN IF InsertRefused(email_record)
       THEN [uuid |-> 0, table |-> emails_table]
       ELSE [uuid |-> row.id, table |-> Append(emails_table, row)]

\* save_email: [uuid, table]; uuid 0 stands for None
save_email(email_data) ==
    LET email_record == [email_id |-> email_data.id,
                         subject |-> email_data.subject,
                         body |-> email_data.body]
        row == [id |-> Len(emails_table) + 1] @@ email_record
    IN IF supabase = "none" \/ InsertRefused(email_record)
       THEN [uuid |-> 0, table |-> emails_table]
       ELSE [uuid |-> row.id, table |-> Append(emails_table, row)]

\* from app.supabase_client_simple import get_video_by_email_uuid: the module
\* defines no such name
ImportGetVideoByEmailUuid == Raised("ImportError")

ItemResult(email_id, success, video_url, message, error) ==
    [email_id |-> email_id, success |-> success, video_url |-> video_url,
     message |-> message, error |-> error]

\* lines 324-419: one email of the loop; [result, counted, table]
ConvertItem(email) ==
    LET saved == save_email([id |-> GetNone(email, "email_id"),
                             subject |-> Get(email, "subject", S_NoSubjectCap),
                             body |-> Get(email, "body", S_NoContent)])
    IN IF saved.uuid = 0
       THEN [result |-> ItemResult(GetNone(email, "email_id"), FALSE, Absent, "",
                                   "Failed to save email to database"),
             counted |-> 0, table |-> saved.table]
       \* successful_count += 1, then the import on line 343 raises inside the
       \* try whose handler is 'except Exception as save_error'; the lookup of an
       \* existing video and the conversion after it are never reached
       ELSE [result |-> ItemResult(GetNone(email, "email_id"), FALSE, Absent, "",
                                   ImportGetVideoByEmailUuid.value[1]),
             counted |-> 1, table |-> saved.table]

CVResponse(status, success, total, successful, results) ==
    [status |-> status, success |-> success, total_emails |-> total,
     successful_emails |-> successful, failed_emails |-> total - successful,
     results |-> results]

\* lines 311-321: a call starts; with no emails the HTTPException(400) raised
\* inside the try is caught by its 'except Exception' and answered as 500
CV_Begin ==
    /\ cv_pc = "idle"
    /\ Len(cv_responses) < MaxRequests
    /\ IF cv_request = <<>>
       THEN /\ cv_responses' = Append(cv_responses, CVResponse(500, FALSE, 0, 0, <<>>))
            /\ UNCHANGED <<cv_pc, cv_i, cv_results, cv_successful_count>>
       ELSE /\ cv_pc' = "loop"
            /\ cv_i' = 1
            /\ cv_results' = <<>>
            /\ cv_successful_count' = 0
            /\ UNCHANGED cv_responses
    /\ UNCHANGED <<envVars, avVars, dlVars, mtVars, sgVars, peVars, rqVars, dbVars, cv_request>>

\* lines 324-419: one turn of the loop
CV_Item ==
    /\ cv_pc = "loop"
    /\ cv_i <= Len(cv_request)
    /\ LET r == ConvertItem(cv_request[cv_i])
       IN /\ emails_table' = r.table
          /\ cv_results' = Append(cv_results, r.result)
          /\ cv_successful_count' = cv_successful_count + r.counted
    /\ cv_i' = cv_i + 1
    /\ UNCHANGED <<envVars, avVars, dlVars, mtVars, sgVars, peVars, rqVars, supabase, unique_email_id, videos_table,
                   cv_request, cv_pc, cv_responses>>

\* lines 421-432: the summary
CV_Finish ==
    /\ cv_pc = "loop"
    /\ cv_i > Len(cv_request)
    /\ cv_responses' = Append(cv_responses,
          CVResponse(200, TRUE, Len(cv_request), cv_successful_count, cv_results))
    /\ cv_pc' = "idle"
    /\ UNCHANGED <<envVars, avVars, dlVars, mtVars, sgVars, peVars, rqVars, dbVars, cv_request, cv_i, cv_results,
                   cv_successful_count>>

GmailEmails ==
    {GEmail(id, sub, SomeBody) : id \in {M1, M2, Absent}, sub \in {ShortSubject, Absent}}

DBIdle ==
    /\ supabase = "none"
    /\ unique_email_id = FALSE
    /\ emails_table = <<>>
    /\ videos_table = <<>>

CVIdle ==
    /\ cv_request = <<>>
    /\ cv_pc = "idle"
    /\ cv_i = 1
    /\ cv_results = <<>>
    /\ cv_successful_count = 0
    /\ cv_responses = <<>>

\* the rows of a table with this email_id
RowsWith(table, email_id) == {k \in 1..Len(table) : table[k].email_id = email_id}

----------------------------------------------------------------------------
(* supabase_client_simple.py and supabase_client.py: the operations called
   directly.  Each begins with 'if not is_supabase_available()' and wraps its
   request in 'except Exception'; failed: the request raised or brought no
   data *)

Clients == {"simple", "full"}

\* a result of a client operation: None, a row id, a row, a list, a bool
DbResult(kind, n) == [kind |-> kind, n |-> n]

DbNone == DbResult("None", 0)

\* one more request has reached the backend, if there is a client at all
Requested(n) == db_requests' = db_requests + (IF supabase = "none" THEN 0 ELSE n)

DbCall(client, op, res) ==
    /\ db_count < MaxDbOps
    /\ cv_pc = "idle"
    /\ cv_responses = <<>>
    /\ db_count' = db_count + 1
    /\ db_last' = [client |-> client, op |-> op, result |-> res]
    /\ UNCHANGED <<envVars, avVars, mtVars, sgVars, peVars, cvVars, rqVars,
                   supabase, unique_email_id>>

\* save_email of either client
DB_SaveEmail ==
    \E client \in Clients, email_id \in {M1, M2}, failed \in BOOLEAN :
        LET saved == save_email([id |-> email_id, subject |-> S_NoSubjectCap,
                                 body |-> S_NoContent])
            done == saved.uuid # 0 /\ ~failed
        IN /\ DbCall(client, "save_email",
                     IF done THEN DbResult("uuid", saved.uuid) ELSE DbNone)
           /\ emails_table' = IF done THEN saved.table ELSE emails_table
           /\ Requested(1)
           /\ UNCHANGED videos_table

VideoStatuses == {"processing", "completed", "failed"}

\* save_video of either client.  given: video_data['status'], "" for a dict
\* without it; the simple client writes no status column
DB_SaveVideo ==
    \E client \in Clients, video_id \in {"v1", "v2"},
       given \in VideoStatuses \cup {""}, failed \in BOOLEAN :
        LET row == [id |-> Len(videos_table) + 1, video_id |-> video_id,
                    email_id |-> NoneVal,
                    status |-> IF client = "simple" THEN "unset"
                               ELSE IF given = "" THEN "completed" ELSE given]
            done == supabase # "none" /\ ~failed
        IN /\ DbCall(client, "save_video",
                     IF done THEN DbResult("uuid", row.id) ELSE DbNone)
           /\ videos_table' = IF done THEN Append(videos_table, row) ELSE videos_table
           /\ Requested(1)
           /\ UNCHANGED emails_table

\* update_video_status (supabase_client.py only): the status of every row
\* with this video_id is overwritten
DB_UpdateVideoStatus ==
    \E video_id \in {"v1", "v2"}, status \in VideoStatuses, failed \in BOOLEAN :
        /\ DbCall("full", "update_video_status", DbNone)
        /\ videos_table' =
              IF supabase = "none" \/ failed THEN videos_table
              ELSE [k \in 1..Len(videos_table) |->
                       IF videos_table[k].video_id = video_id
                       THEN [videos_table[k] EXCEPT !.status = status]
                       ELSE videos_table[k]]
        /\ Requested(1)
        /\ UNCHANGED emails_table

\* get_email_by_id, get_email_with_videos and get_video_by_id: the first row
\* with the key, or None
DB_Lookup ==
    \E client \in Clients, failed \in BOOLEAN,
       op \in {"get_email_by_id", "get_email_with_videos", "get_video_by_id"} :
        LET found == IF op = "get_video_by_id"
                     THEN {k \in 1..Len(videos_table) : videos_table[k].video_id = "v1"}
                     ELSE RowsWith(emails_table, M1)
        IN /\ DbCall(client, op,
                     IF supabase = "none" \/ failed \/ found = {} THEN DbNone
                     ELSE DbResult("row", CHOOSE k \in found : \A j \in found : k <= j))
           /\ Requested(1)
           /\ UNCHANGED <<emails_table, videos_table>>

\* get_recent_videos(limit=10)
DB_GetRecentVideos ==
    \E client \in Clients, failed \in BOOLEAN :
        /\ DbCall(client, "get_recent_videos",
                  IF supabase = "none" \/ failed THEN DbResult("list", 0)
                  ELSE DbResult("list", Min(Len(videos_table), 10)))
        /\ Requested(1)
        /\ UNCHANGED <<emails_table, videos_table>>

\* clear_all_tables (supabase_client_simple.py only): videos first, then
\* emails.  failed: 0 for no delete, otherwise the delete that raised
DB_ClearAllTables ==
    \E failed \in 0..2 :
        /\ DbCall("simple", "clear_all_tables",
                  DbResult("bool", IF supabase # "none" /\ failed = 0 THEN 1 ELSE 0))
        /\ videos_table' = IF supabase = "none" \/ failed = 1 THEN videos_table ELSE <<>>
        /\ emails_table' = IF supabase = "none" \/ failed # 0 THEN emails_table ELSE <<>>
        /\ Requested(IF failed = 1 THEN 1 ELSE 2)

----------------------------------------------------------------------------
(* main.py: the other endpoints, one request *)

Resp(status, body) == [status |-> status, body |-> body]

RQIdle ==
    /\ rq_endpoint = "none"
    /\ rq_input = [none |-> TRUE]
    /\ rq_pc = "idle"
    /\ rq_effects = <<>>
    /\ rq_response = Resp(0, [none |-> TRUE])

Effect(call, arg) == [call |-> call, arg |-> arg]

\* 'except Exception as e: raise HTTPException(status_code=500, ...)' around a
\* handler body: it also catches the HTTPException the body raised itself
Wrapped500(inner_status) == Resp(500, [error |-> "HTTPException", inner |-> inner_status])

EffectsOf(call) == {k \in 1..Len(rq_effects) : rq_effects[k].call = call}

(* POST /process-emails; FastAPI has validated the body to be a list of
   JSON objects, of which the handler only looks at the number *)

\* lines 775-785: up to the await of process_email_batch; the
\* HTTPException(400) of line 779 is raised inside the try and caught by the
\* 'except Exception' of line 798
PM_Begin ==
    /\ rq_endpoint = "process-emails"
    /\ rq_pc = "start"
    /\ IF rq_input.n > BatchLimit
       THEN /\ rq_response' = Wrapped500(400)
            /\ rq_pc' = "done"
            /\ UNCHANGED rq_effects
       ELSE /\ rq_effects' = Append(rq_effects, Effect("process_email_batch", <<rq_input.n>>))
            /\ rq_pc' = "awaiting_batch"
            /\ UNCHANGED rq_response
    /\ UNCHANGED <<envVars, avVars, dlVars, mtVars, sgVars, peVars, dbVars, cvVars, rq_endpoint, rq_input>>

\* lines 787-796: the batch of dicts has returned its summary
PM_Finish ==
    /\ rq_endpoint = "process-emails"
    /\ rq_pc = "awaiting_batch"
    /\ rq_response' = Resp(200, [success |-> TRUE, total |-> rq_input.n])
    /\ rq_pc' = "done"
    /\ UNCHANGED <<envVars, avVars, dlVars, mtVars, sgVars, peVars, dbVars, cvVars, rq_endpoint, rq_input, rq_effects>>

(* POST /fetch-and-process-gmail.  rq_input: whether the body carries an
   access_token, the status of the message-list call, the ids it lists and,
   per id, whether the message-detail call is ok *)

GmailOk(status) == status < 400

\* the emails built from the messages whose detail call was ok (subject and
\* body as extracted from the payload)
FetchedEmails(input) ==
    LET ok == {k \in 1..Len(input.messages) : input.detail_ok[k]}
    IN [j \in 1..Cardinality(ok) |->
            GEmail(input.messages[Nth(ok, j)], ShortSubject, SomeBody)]

EmptyGmailResult ==
    Resp(200, [success |-> TRUE, total_emails |-> 0, successful_emails |-> 0,
               results |-> <<>>])

\* lines 453-588: up to the first save_email; requests.get blocks, so the
\* list call and the detail calls happen without another request in between
GF_Begin ==
    /\ rq_endpoint = "fetch-and-process-gmail"
    /\ rq_pc = "start"
    /\ LET list_call == <<Effect("gmail_list", <<>>)>>
           detail_calls == [k \in 1..Len(rq_input.messages) |->
                               Effect("gmail_message", rq_input.messages[k])]
           emails == FetchedEmails(rq_input)
       IN IF ~rq_input.access_token
          THEN \* HTTPException(400), caught by the 'except Exception' of line 704
               /\ rq_response' = Wrapped500(400)
               /\ rq_pc' = "done"
               /\ UNCHANGED <<rq_effects, cvVars>>
          ELSE IF ~GmailOk(rq_input.list_status)
          THEN \* HTTPException(list_response.status_code), caught likewise
               /\ rq_effects' = list_call
               /\ rq_response' = Wrapped500(rq_input.list_status)
               /\ rq_pc' = "done"
               /\ UNCHANGED cvVars
          ELSE IF rq_input.messages = <<>>
          THEN /\ rq_effects' = list_call
               /\ rq_response' = EmptyGmailResult
               /\ rq_pc' = "done"
               /\ UNCHANGED cvVars
          ELSE IF emails = <<>>
          THEN /\ rq_effects' = list_call \o detail_calls
               /\ rq_response' = EmptyGmailResult
               /\ rq_pc' = "done"
               /\ UNCHANGED cvVars
          ELSE /\ rq_effects' = list_call \o detail_calls
               /\ rq_pc' = "loop"
               /\ cv_request' = emails
               /\ cv_pc' = "loop"
               /\ cv_i' = 1
               /\ cv_results' = <<>>
               /\ cv_successful_count' = 0
               /\ UNCHANGED <<rq_response, cv_responses>>
    /\ UNCHANGED <<envVars, avVars, dlVars, mtVars, sgVars, peVars, dbVars, rq_endpoint, rq_input>>

\* lines 594-688: one turn of the loop, the same as in the batch endpoint
GF_Item ==
    /\ rq_endpoint = "fetch-and-process-gmail"
    /\ rq_pc = "loop"
    /\ CV_Item

\* lines 690-702: the summary
GF_Finish ==
    /\ rq_endpoint = "fetch-and-process-gmail"
    /\ rq_pc = "loop"
    /\ cv_i > Len(cv_request)
    /\ rq_response' = Resp(200, [success |-> TRUE, total_emails |-> Len(cv_request),
                                 successful_emails |-> cv_successful_count,
                                 results |-> cv_results])
    /\ rq_pc' = "done"
    /\ cv_pc' = "idle"
    /\ UNCHANGED <<envVars, avVars, dlVars, mtVars, sgVars, peVars, dbVars, rq_endpoint, rq_input, rq_effects,
                   cv_request, cv_i, cv_results, cv_successful_count, cv_responses>>

(* POST /webhook/gmail.  rq_input: the payload (a JSON object) by what the
   handler looks at, and whether the logger is enabled for INFO, as it is
   after setup_logging *)

\* logger.info(msg, extra=webhook_data): Logger.makeRecord raises KeyError when
\* extra has the key 'message'; a logger not enabled for INFO makes no record
LogExtraRaises(input) == input.info_logging /\ input.has_message

\* webhook_data.get('message', {}).get('data'): [raised, value]
WebhookEmailId(input) ==
    IF ~input.has_message THEN [raised |-> FALSE, value |-> NoneVal]
    ELSE IF ~input.message_is_mapping THEN [raised |-> TRUE, value |-> NoneVal]
    ELSE [raised |-> FALSE, value |-> IF input.data = Absent THEN NoneVal ELSE input.data]

\* lines 819-842: the handler has no await
WH_Request ==
    /\ rq_endpoint = "webhook/gmail"
    /\ rq_pc = "start"
    /\ LET id == WebhookEmailId(rq_input) IN
       IF LogExtraRaises(rq_input) \/ id.raised
       THEN /\ rq_response' = Resp(200, [status |-> "error", email_id |-> NoneVal])
            /\ UNCHANGED rq_effects
       ELSE IF Falsy(id.value)
       THEN /\ rq_response' = Resp(200, [status |-> "ignored", email_id |-> NoneVal])
            /\ UNCHANGED rq_effects
       ELSE /\ rq_effects' = Append(rq_effects, Effect("add_task", id.value))
            /\ rq_response' = Resp(200, [status |-> "accepted", email_id |-> id.value])
    /\ rq_pc' = "done"
    /\ UNCHANGED <<envVars, avVars, dlVars, mtVars, sgVars, peVars, dbVars, cvVars, rq_endpoint, rq_input>>

\* process_gmail_notification, run by the background tasks after the answer:
\* it hands a placeholder email with this id to process_email and catches
\* whatever that raises
WH_RunTask ==
    /\ rq_endpoint = "webhook/gmail"
    /\ rq_pc = "done"
    /\ EffectsOf("add_task") # {}
    /\ EffectsOf("process_email") = {}
    /\ rq_effects' = Append(rq_effects,
          Effect("process_email", rq_effects[CHOOSE k \in EffectsOf("add_task") : TRUE].arg))
    /\ UNCHANGED <<envVars, avVars, dlVars, mtVars, sgVars, peVars, dbVars, cvVars, rq_endpoint, rq_input, rq_pc,
                   rq_response>>

(* monitoring.py and the health endpoints.  rq_input: what the machine and
   the installation report, and whether computing the status raises *)

\* the status of a usage check: [ok |-> the reading worked, pct |-> usage]
UsageStatus(reading) ==
    IF ~reading.ok THEN "error"
    ELSE IF reading.pct < WarnPercent THEN "healthy"
    ELSE "warning"

\* mutant of check_system_health: a warning of the critical check counts as down
check_system_health_warning_is_down(disk, psutil, memory) ==
    LET disk_space == UsageStatus(disk)
        mem == IF ~psutil THEN "unknown" ELSE UsageStatus(memory)
    IN [status |-> IF disk_space \in {"error", "warning"} THEN "unhealthy"
                   ELSE IF "warning" \in {disk_space, mem} THEN "degraded"
                   ELSE "healthy",
        disk_space |-> disk_space,
        memory |-> mem]

\* check_system_health: disk is the reading of shutil.disk_usage, psutil
\* whether the module can be imported, memory the reading of virtual_memory
check_system_health(disk, psutil, memory) ==
    LET disk_space == UsageStatus(disk)
        mem == IF ~psutil THEN "unknown" ELSE UsageStatus(memory)
    IN [status |-> IF disk_space = "error" THEN "unhealthy"
                   ELSE IF "warning" \in {disk_space, mem} THEN "degraded"
                   ELSE "healthy",
        disk_space |-> disk_space,
        memory |-> mem]

\* check_dependencies: api_key: AsyncOpenAI(api_key=...) can be built;
\* ffprobe: the probe of /dev/null ends in ffmpeg.Error, not in a missing
\* program; the other two entries are constant
check_dependencies(api_key, ffprobe) ==
    LET deps == {IF api_key THEN "healthy" ELSE "error",
                 IF ffprobe THEN "healthy" ELSE "error",
                 "healthy"}
    IN IF deps = {"healthy"} THEN "healthy" ELSE "degraded"

\* health_check_pipeline: all(checks.values())
health_check_pipeline(parse_ok) == parse_ok

HealthRaised == Resp(503, [internal |-> "error", raised |-> TRUE])

HealthFrame ==
    /\ rq_pc = "start"
    /\ rq_pc' = "done"
    /\ UNCHANGED <<envVars, avVars, dlVars, mtVars, sgVars, peVars, dbVars, cvVars, rq_endpoint, rq_input, rq_effects>>

\* main.py:167-188
Health_System ==
    /\ rq_endpoint = "health/system"
    /\ HealthFrame
    /\ LET h == check_system_health(rq_input.disk, rq_input.psutil, rq_input.memory)
       IN rq_response' =
            IF rq_input.raises THEN HealthRaised
            ELSE Resp(IF h.status = "unhealthy" THEN 503 ELSE 200,
                      [internal |-> h.status, raised |-> FALSE])

\* main.py:191-208
Health_Dependencies ==
    /\ rq_endpoint = "health/dependencies"
    /\ HealthFrame
    /\ LET overall == check_dependencies(rq_input.api_key, rq_input.ffprobe)
       IN rq_response' =
            IF rq_input.raises THEN HealthRaised
            ELSE Resp(IF overall = "healthy" THEN 200 ELSE 503,
                      [internal |-> overall, raised |-> FALSE])

\* main.py:211-228
Health_Pipeline ==
    /\ rq_endpoint = "health/pipeline"
    /\ HealthFrame
    /\ LET healthy == health_check_pipeline(rq_input.parse_ok)
       IN rq_response' =
            IF rq_input.raises THEN HealthRaised
            ELSE Resp(IF healthy THEN 200 ELSE 503,
                      [internal |-> IF healthy THEN "healthy" ELSE "unhealthy",
                       raised |-> FALSE])

----------------------------------------------------------------------------
(* video_assembly.py: assemble_video step by step, with the files it makes.
   None of its awaits suspends (download_from_storage, upload_to_storage and
   generate_thumbnail have no await that yields, ffmpeg.run blocks), so a
   call that has begun runs to its end before another call of the same
   process begins; the requests the calls belong to are in flight together *)

Calls == {1, 2}

\* a file name or URL: what it is, its variable part, its millisecond stamp
Path(kind, id, stamp) == [kind |-> kind, id |-> id, stamp |-> stamp]

NoPath == Path("unset", "", 0)
\* audio_url None and ""
NoneAudio == Path("None", "", 0)
EmptyAudio == Path("", "", 0)
\* "assets/default_audio.mp3", what generate_audio returns when it fails
DefaultAudioFile == Path("asset", "default_audio.mp3", 0)
\* "assets/default_video.mp4"
DefaultVideoFile == Path("asset", "default_video.mp4", 0)
\* https://<project>.supabase.co/.../audio/<uuid4>.mp3: one uuid per narration
SupabaseAudio(c) == Path("supabase_url", IF c = 1 THEN "uuid-1.mp3" ELSE "uuid-2.mp3", 0)

\* email_data: None, a mapping without 'id', a mapping with 'id'
NoneEmail == [is_none |-> TRUE, id |-> ""]
EmailWithoutId == [is_none |-> FALSE, id |-> ""]
EmailWithId(id) == [is_none |-> FALSE, id |-> id]

\* validate_video_inputs on the values above
ValidVideoInputs(url, email_data) ==
    /\ url.kind \notin {"None", ""}
    /\ ~email_data.is_none
    /\ email_data.id # ""

NoResult == [kind |-> "none", value |-> "none"]

CallState(at, url, email_data, text) ==
    [pc |-> at, audio_url |-> url, email_data |-> email_data, script |-> text,
     temp_files |-> <<>>, audio_path |-> NoPath, background_path |-> NoPath,
     stamp |-> 0, output_path |-> NoPath, subtitle_path |-> NoPath,
     video_url |-> NoPath, exc |-> "none",
     created |-> {}, calls |-> <<>>, result |-> NoResult]

AVIdle ==
    /\ av = [c \in Calls |-> CallState("none", NoneAudio, NoneEmail, <<>>)]
    /\ fs = {}
    /\ av_clock = 1
    /\ av_running = 0

DLIdle ==
    /\ db_last = [client |-> "none", op |-> "none", result |-> DbNone]
    /\ db_count = 0
    /\ db_requests = 0

\* a dict with no key
EmptyDict == [k \in {} |-> 0]

NoStats == [counters |-> EmptyDict, gauges |-> EmptyDict, histograms |-> EmptyDict]

MTIdle ==
    /\ mt_counters = EmptyDict
    /\ mt_gauges = EmptyDict
    /\ mt_histograms = EmptyDict
    /\ mt_recorded = EmptyDict
    /\ mt_stats = NoStats
    /\ mt_ops = 0

AVFrame == UNCHANGED <<envVars, dlVars, mtVars, sgVars, peVars, dbVars, cvVars, rqVars>>

\* the except handler of assemble_video is entered with exception e
Fails(c, e) == [av[c] EXCEPT !.pc = "except", !.exc = e]

Called(cs, name) == [cs EXCEPT !.calls = Append(@, name)]

\* video_assembly.py:293-298: the call begins; validate_video_inputs
AV_Begin(c) ==
    /\ av_running = 0
    /\ av[c].pc = "pending"
    /\ av_running' = c
    /\ av' = [av EXCEPT ![c] =
                IF ValidVideoInputs(av[c].audio_url, av[c].email_data)
                THEN [av[c] EXCEPT !.pc = "download"]
                ELSE Fails(c, "VideoAssemblyError")]
    /\ UNCHANGED <<fs, av_clock>>
    /\ AVFrame

\* storage.py:82-132 download_from_storage.  storage: the Supabase client is
\* missing ("none"), its download works ("ok") or raises ("fails")
download_from_storage(url, files, storage) ==
    IF url \in files THEN [path |-> url, written |-> {}]
    ELSE IF url.kind = "supabase_url" /\ storage = "ok"
    THEN [path |-> Path("/tmp", url.id, 0), written |-> {Path("/tmp", url.id, 0)}]
    ELSE IF url.kind = "supabase_url" /\ Path("assets/downloads", url.id, 0) \in files
    THEN [path |-> Path("assets/downloads", url.id, 0), written |-> {}]
    ELSE [path |-> url, written |-> {}]

\* video_assembly.py:300-302
AV_Download(c) ==
    /\ av_running = c
    /\ av[c].pc = "download"
    /\ \E storage \in {"none", "ok", "fails"} :
         LET d == download_from_storage(av[c].audio_url, fs, storage)
         IN /\ fs' = fs \cup d.written
            /\ av' = [av EXCEPT ![c] =
                        [Called(av[c], "download_from_storage") EXCEPT
                            !.pc = "background",
                            !.audio_path = d.path,
                            !.temp_files = Append(@, d.path),
                            !.created = @ \cup d.written]]
    /\ UNCHANGED <<av_clock, av_running>>
    /\ AVFrame

\* tempfile.NamedTemporaryFile(suffix=".mp4", delete=False): a name no other
\* file has
ColorBackgroundFile(c) == Path("/tmp/tmp", IF c = 1 THEN "rand-1.mp4" ELSE "rand-2.mp4", 0)

\* video_assembly.py:304-317 and 201-227 create_color_background.
\* found: the selected background exists; color_ok: the lavfi command worked
AV_Background(c) ==
    /\ av_running = c
    /\ av[c].pc = "background"
    /\ \E found \in BOOLEAN, color_ok \in BOOLEAN :
         IF found
         THEN /\ av' = [av EXCEPT ![c] =
                          [Called(av[c], "get_background_video") EXCEPT
                              !.pc = "output",
                              !.background_path = Path("assets/backgrounds", "selected.mp4", 0)]]
              /\ fs' = fs
         ELSE /\ av' = [av EXCEPT ![c] =
                          [Called(Called(av[c], "get_background_video"), "ffmpeg color") EXCEPT
                              !.pc = "output",
                              !.background_path =
                                  IF color_ok THEN ColorBackgroundFile(c) ELSE DefaultVideoFile,
                              !.created = @ \cup {ColorBackgroundFile(c)}]]
              /\ fs' = fs \cup {ColorBackgroundFile(c)}
    /\ UNCHANGED <<av_clock, av_running>>
    /\ AVFrame

\* video_assembly.py:319-334 and 73-126 create_subtitle_file.  The clock has
\* moved on by now or has not; srt: the subtitle file is written ("ok"), or
\* create_subtitle_file fails before ("early") or after ("late") opening it
AV_Output(c) ==
    /\ av_running = c
    /\ av[c].pc = "output"
    /\ \E now \in {av_clock, av_clock + 1}, srt \in {"ok", "early", "late"} :
         LET output_path == Path("/tmp/video", av[c].email_data.id, now)
             srt_path == Path("/tmp/subtitles", av[c].email_data.id, now)
             wanted == Strip(av[c].script) # <<>>
             opened == IF wanted /\ srt # "early" THEN {srt_path} ELSE {}
             listed == IF wanted /\ srt = "ok" THEN <<srt_path>> ELSE <<>>
         IN /\ now <= MaxClock
            /\ av_clock' = now
            /\ fs' = fs \cup opened
            /\ av' = [av EXCEPT ![c] =
                        [Called(av[c], "ffmpeg.probe") EXCEPT
                            !.pc = "ffmpeg",
                            !.stamp = now,
                            !.output_path = output_path,
                            !.subtitle_path = IF listed = <<>> THEN NoPath ELSE srt_path,
                            !.temp_files = (@ \o <<output_path>>) \o listed,
                            !.created = @ \cup opened]]
    /\ UNCHANGED av_running
    /\ AVFrame

\* a path ffmpeg can open: an existing file, or a URL
Readable(path, files) == path \in files \/ path.kind = "supabase_url"

\* video_assembly.py:336-353: ffmpeg.run.  ok: the command succeeded
AV_Ffmpeg(c) ==
    /\ av_running = c
    /\ av[c].pc = "ffmpeg"
    /\ \E ok \in BOOLEAN :
         IF ok /\ Readable(av[c].audio_path, fs) /\ av[c].background_path \in fs \cup
                                                     {Path("assets/backgrounds", "selected.mp4", 0)}
         THEN /\ fs' = fs \cup {av[c].output_path}
              /\ av' = [av EXCEPT ![c] =
                          [Called(av[c], "ffmpeg.run") EXCEPT
                              !.pc = "upload",
                              !.created = @ \cup {av[c].output_path}]]
         ELSE /\ fs' = fs
              /\ av' = [av EXCEPT ![c] = Called(Fails(c, "VideoAssemblyError"), "ffmpeg.run")]
    /\ UNCHANGED <<av_clock, av_running>>
    /\ AVFrame

\* storage.py:35-79 upload_to_storage.  storage: the Supabase client is
\* missing ("none"), its upload returns a result ("ok") or nothing ("falsy"),
\* or raises ("raises"); copy: shutil.copy2 into the assets directory works
\* ("ok"), fails the first time only ("once") or both times ("twice").
\* [kind, value, files]: what it returns or raises, and the files afterwards
upload_to_storage(file_path, destination, files, storage, copy) ==
    LET dest_path == [destination EXCEPT !.kind = "assets/" \o @]
        exists == file_path \in files
        stored == [kind |-> "returned", value |-> dest_path,
                   files |-> files \cup {dest_path}]
        first_try ==
            IF storage # "none" /\ ~exists THEN "raised"
            ELSE IF storage = "raises" THEN "raised"
            ELSE IF storage = "ok" THEN "public_url"
            ELSE IF exists /\ copy = "ok" THEN "stored"
            ELSE "raised"
    IN CASE first_try = "public_url" ->
                [kind |-> "returned",
                 value |-> [destination EXCEPT !.kind = "public_url/" \o @],
                 files |-> files]
         [] first_try = "stored" -> stored
         [] OTHER ->
                \* the handler copies again, outside any try
                IF exists /\ copy # "twice" THEN stored
                ELSE [kind |-> "raised", value |-> dest_path, files |-> files]

\* video_assembly.py:355-357
AV_Upload(c) ==
    /\ av_running = c
    /\ av[c].pc = "upload"
    /\ \E storage \in {"none", "ok", "falsy", "raises"}, copy \in {"ok", "once", "twice"} :
         LET r == upload_to_storage(av[c].output_path,
                                    Path("videos", av[c].email_data.id, av[c].stamp),
                                    fs, storage, copy)
         IN /\ fs' = r.files
            /\ av' = [av EXCEPT ![c] =
                        IF r.kind = "returned"
                        THEN [Called(av[c], "upload_to_storage") EXCEPT
                                 !.pc = "thumbnail",
                                 !.video_url = r.value]
                        ELSE Called(Fails(c, "OSError"), "upload_to_storage")]
    /\ UNCHANGED <<av_clock, av_running>>
    /\ AVFrame

\* video_assembly.py:359-369 and 472-504 generate_thumbnail, then the return.
\* thumb: the frame command fails ("no_frame"), the upload of the frame raises
\* ("no_upload"), or both work ("ok")
AV_Thumbnail(c) ==
    /\ av_running = c
    /\ av[c].pc = "thumbnail"
    /\ \E thumb \in {"ok", "no_frame", "no_upload"} :
         LET thumbnail_path == Path("/tmp/thumb", av[c].email_data.id, av[c].stamp)
             made == IF thumb = "no_frame" THEN {} ELSE {thumbnail_path}
             left == IF thumb = "no_upload" THEN {thumbnail_path} ELSE {}
         IN /\ fs' = (fs \ made) \cup left
            /\ av' = [av EXCEPT ![c] =
                        [Called(av[c], "generate_thumbnail") EXCEPT
                            !.pc = "finally",
                            !.created = @ \cup made,
                            !.result = [kind |-> "returned", value |-> "video_url"]]]
    /\ UNCHANGED <<av_clock, av_running>>
    /\ AVFrame

\* video_assembly.py:370-372: the handler logs email_data.get('id') and
\* raises VideoAssemblyError
AV_Except(c) ==
    /\ av_running = c
    /\ av[c].pc = "except"
    /\ av' = [av EXCEPT ![c].pc = "finally",
                        ![c].result =
                            [kind |-> "raised",
                             value |-> IF av[c].email_data.is_none
                                       THEN "AttributeError"
                                       ELSE "VideoAssemblyError"]]
    /\ UNCHANGED <<fs, av_clock, av_running>>
    /\ AVFrame

\* cleanup_temp_files: every listed path that exists is unlinked
cleanup_temp_files(file_paths, files) ==
    files \ {file_paths[i] : i \in DOMAIN file_paths}

\* video_assembly.py:374-376: the finally block, and the call is over
AV_Finally(c) ==
    /\ av_running = c
    /\ av[c].pc = "finally"
    /\ fs' = cleanup_temp_files(av[c].temp_files, fs)
    /\ av' = [av EXCEPT ![c].pc = "done"]
    /\ av_running' = 0
    /\ UNCHANGED av_clock
    /\ AVFrame

----------------------------------------------------------------------------
(* monitoring.py: MetricsCollector.  A dict is a function on its keys; a key
   is what _format_key returned *)

\* d[k] = v
Put(d, k, v) == [x \in DOMAIN d \cup {k} |-> IF x = k THEN v ELSE d[x]]

\* d.get(k, default)
GetD(d, k, default) == IF k \in DOMAIN d THEN d[k] ELSE default

\* mutant of record: the first 1000 samples are kept
record_keeps_oldest(histograms, key, value) ==
    LET appended == Append(GetD(histograms, key, <<>>), value)
    IN Put(histograms, key,
           IF Len(appended) > HistogramCap
           THEN SubSeq(appended, 1, HistogramCap)
           ELSE appended)

\* record: append, then values[-1000:] when there are more than 1000
record(histograms, key, value) ==
    LET appended == Append(GetD(histograms, key, <<>>), value)
    IN Put(histograms, key,
           IF Len(appended) > HistogramCap
           THEN SubSeq(appended, Len(appended) - HistogramCap + 1, Len(appended))
           ELSE appended)

Samples(values) == {values[j] : j \in DOMAIN values}

\* sorted(values): position i holds the sample v with fewer than i samples
\* below it and at least i samples not above it
Sorted(values) ==
    [i \in 1..Len(values) |->
        CHOOSE v \in Samples(values) :
            /\ Cardinality({j \in DOMAIN values : values[j] < v}) < i
            /\ i <= Cardinality({j \in DOMAIN values : values[j] <= v})]

\* mutant of percentile: the index is one lower
percentile_one_lower(values, percent) ==
    LET index == (Len(values) * percent) \div 100 - 1
    IN Sorted(values)[Min(index, Len(values) - 1) + 1]

\* _percentile(values, percent / 100): int(len * 0.95) is (95 * len) div 100
\* for every len up to 1000 (and likewise for 0.99), in double arithmetic too
percentile(values, percent) ==
    LET index == (Len(values) * percent) \div 100
    IN Sorted(values)[Min(index, Len(values) - 1) + 1]

\* get_stats without the clock and the float avg
get_stats ==
    [counters |-> mt_counters,
     gauges |-> mt_gauges,
     histograms |->
        [key \in {k \in DOMAIN mt_histograms : mt_histograms[k] # <<>>} |->
            LET values == mt_histograms[key]
            IN [count |-> Len(values),
                min |-> CHOOSE v \in Samples(values) : \A w \in Samples(values) : v <= w,
                max |-> CHOOSE v \in Samples(values) : \A w \in Samples(values) : w <= v,
                p95 |-> percentile(values, 95),
                p99 |-> percentile(values, 99)]]]

MetricKeys == {"a", "b"}

MTCall ==
    /\ mt_ops < MaxMetricOps
    /\ mt_ops' = mt_ops + 1
    /\ UNCHANGED <<envVars, avVars, dlVars, sgVars, peVars, dbVars, cvVars, rqVars>>

\* monitoring.py:86-96
MT_Increment ==
    \E key \in {"a"}, value \in {1, 2} :
        /\ MTCall
        /\ mt_counters' = Put(mt_counters, key, GetD(mt_counters, key, 0) + value)
        /\ UNCHANGED <<mt_gauges, mt_histograms, mt_recorded, mt_stats>>

\* monitoring.py:98-114
MT_Record ==
    \E key \in MetricKeys, value \in {1, 2, 3} :
        /\ MTCall
        /\ mt_histograms' = record(mt_histograms, key, value)
        /\ mt_recorded' = Put(mt_recorded, key, Append(GetD(mt_recorded, key, <<>>), value))
        /\ UNCHANGED <<mt_counters, mt_gauges, mt_stats>>

\* monitoring.py:116-125
MT_SetGauge ==
    \E key \in {"a"}, value \in {1, 2} :
        /\ MTCall
        /\ mt_gauges' = Put(mt_gauges, key, value)
        /\ UNCHANGED <<mt_counters, mt_histograms, mt_recorded, mt_stats>>

\* monitoring.py:127-148
MT_GetStats ==
    /\ MTCall
    /\ mt_stats' = get_stats
    /\ UNCHANGED <<mt_counters, mt_gauges, mt_histograms, mt_recorded>>

----------------------------------------------------------------------------
(* The inputs and the specifications *)

QuotedBody == <<">", " ", "o", "l", "d">>
MessyBody == <<" "," ","H","e","l","l","o"," ","<","b",">","w","o","r","l","d","<","/","b",">","\n",">"," ","o","l","d"," ","t","e","x","t","\n","\n","T","h","a","n","k","s",","," ","B","o","b","\n","-","-","\n","O","n"," ","M","o","n"," ","s","o","m","e","o","n","e"," ","w","r","o","t","e",":","\n","s","e","e"," "," ","y","o","u"," ">>
LongBody == Rep("x", LongBodyLen)

DictInputs ==
    {Raw("dict", MkEmail(id, f, s, b)) :
        id \in {Absent, <<>>, E1},
        f \in {Absent, ShortFrom},
        s \in {Absent, NoneVal, ShortSubject},
        b \in {Absent, MessyBody, QuotedBody, LongBody}}

MappingInputs ==
    {Raw("mapping", MkEmail(id, f, Absent, Absent)) :
        id \in {Absent, <<>>, E1}, f \in {Absent, ShortFrom}}

RawInputs == DictInputs \cup MappingInputs \cup {Raw("none", NoData), Raw("scalar", NoData)}

BatchInputs ==
    {Raw("dict", MkEmail(E1, ShortFrom, ShortSubject, QuotedBody)),
     Raw("dict", MkEmail(Absent, Absent, Absent, Absent)),
     Raw("scalar", NoData)}

SGIdle ==
    /\ sg_pc = "idle"
    /\ sg_email = MkEmail(E1, Absent, Absent, <<>>)
    /\ sg_max_retries = 0
    /\ sg_attempt = 0
    /\ sg_calls = 0
    /\ sg_log = <<>>
    /\ sg_values = <<>>
    /\ sg_model_calls = 0
    /\ sg_sleeps = <<>>
    /\ sg_result = Absent

SeqsUpTo(S, n) == UNION {[1..k -> S] : k \in 0..n}

TasksInit(list) ==
    /\ email_list = list
    /\ pc = [i \in 1..Len(list) |-> "start"]
    /\ parsed_email = [i \in 1..Len(list) |-> NoData]
    /\ script = [i \in 1..Len(list) |-> Absent]
    /\ audio_url = [i \in 1..Len(list) |-> Absent]
    /\ calls = [i \in 1..Len(list) |-> <<>>]
    /\ result = [i \in 1..Len(list) |-> Pending]
    /\ http_response = NoResponse
    /\ batch_result = Pending

PEIdle ==
    /\ entry = "idle"
    /\ TasksInit(<<>>)

\* one process_email call, made directly or by POST /process-email, whose body
\* FastAPI has validated to be a JSON object
Init ==
    /\ openai_client \in {"none", "raising", "live"}
    /\ stage_faults \in BOOLEAN
    /\ SGIdle
    /\ DBIdle
    /\ CVIdle
    /\ RQIdle
    /\ AVIdle
    /\ DLIdle
    /\ MTIdle
    /\ \/ entry = "direct" /\ \E raw \in RawInputs : TasksInit(<<raw>>)
       \/ entry = "http" /\ \E raw \in DictInputs : TasksInit(<<raw>>)

Next ==
    \/ \E i \in Tasks : PE_Step(i)
    \/ HTTP_Respond

Spec == Init /\ [][Next]_vars

\* one process_email_batch call; the coroutines interleave at their awaits
BatchInit ==
    /\ openai_client \in {"none", "raising"}
    /\ stage_faults = FALSE
    /\ SGIdle
    /\ DBIdle
    /\ CVIdle
    /\ RQIdle
    /\ AVIdle
    /\ DLIdle
    /\ MTIdle
    /\ entry = "batch"
    /\ \E list \in SeqsUpTo(BatchInputs, MaxBatch) : TasksInit(list)

BatchNext ==
    \/ \E i \in Tasks : PE_Step(i)
    \/ Batch_Analyze

SpecBatch == BatchInit /\ [][BatchNext]_vars

\* up to MaxRequests calls of POST /convert-emails-to-videos-batch with the
\* same body, on an emails table that starts empty
EndpointInit ==
    /\ openai_client = "none"
    /\ stage_faults = FALSE
    /\ SGIdle
    /\ PEIdle
    /\ supabase \in {"none", "connected"}
    /\ unique_email_id \in BOOLEAN
    /\ emails_table = <<>>
    /\ videos_table = <<>>
    /\ cv_request \in SeqsUpTo(GmailEmails, MaxRequestEmails)
    /\ cv_pc = "idle"
    /\ cv_i = 1
    /\ cv_results = <<>>
    /\ cv_successful_count = 0
    /\ cv_responses = <<>>
    /\ RQIdle
    /\ AVIdle
    /\ DLIdle
    /\ MTIdle

EndpointNext == CV_Begin \/ CV_Item \/ CV_Finish

SpecEndpoint == EndpointInit /\ [][EndpointNext]_vars

\* the clients are called directly, then the preserve-history batch
\* endpoint is
DbInit ==
    /\ openai_client = "none"
    /\ stage_faults = FALSE
    /\ SGIdle
    /\ PEIdle
    /\ RQIdle
    /\ AVIdle
    /\ DLIdle
    /\ MTIdle
    /\ supabase \in {"none", "connected"}
    /\ unique_email_id \in BOOLEAN
    /\ emails_table = <<>>
    /\ videos_table = <<>>
    /\ cv_request \in SeqsUpTo({GEmail(M1, ShortSubject, SomeBody)}, MaxRequestEmails)
    /\ cv_pc = "idle"
    /\ cv_i = 1
    /\ cv_results = <<>>
    /\ cv_successful_count = 0
    /\ cv_responses = <<>>

DbNext ==
    \/ DB_SaveEmail
    \/ DB_SaveVideo
    \/ DB_UpdateVideoStatus
    \/ DB_Lookup
    \/ DB_GetRecentVideos
    \/ DB_ClearAllTables
    \/ CV_Begin
    \/ CV_Item
    \/ CV_Finish

SpecDb == DbInit /\ [][DbNext]_vars

\* what was recorded for key "a" before: the ten values 10, 9, ..., 1, or a
\* long run of 1, 2, 3 samples
TenValues == [i \in 1..10 |-> 11 - i]

LongRun(n) == [i \in 1..n |-> (i % 3) + 1]

RecordedBefore ==
    {EmptyDict} \cup
    {[k \in {"a"} |-> h] : h \in {TenValues, LongRun(HistogramCap - 1), LongRun(HistogramCap)}}

MetricsInit ==
    /\ openai_client = "none"
    /\ stage_faults = FALSE
    /\ SGIdle
    /\ PEIdle
    /\ DBIdle
    /\ CVIdle
    /\ RQIdle
    /\ AVIdle
    /\ DLIdle
    /\ mt_counters = EmptyDict
    /\ mt_gauges = EmptyDict
    /\ mt_histograms \in RecordedBefore
    /\ mt_recorded = mt_histograms
    /\ mt_stats = NoStats
    /\ mt_ops = 0

MetricsNext == MT_Increment \/ MT_Record \/ MT_SetGauge \/ MT_GetStats

SpecMetrics == MetricsInit /\ [][MetricsNext]_vars

ProcessEmailsInputs == {[n |-> n] : n \in 0..(BatchLimit + MaxOverLimit)}

GmailInputs ==
    {[access_token |-> t, list_status |-> st, messages |-> ms, detail_ok |-> ok] :
        t \in BOOLEAN, st \in {200, 401, 500},
        ms \in SeqsUpTo({M1, M2}, MaxGmailMessages),
        ok \in [1..MaxGmailMessages -> BOOLEAN]}

\* {}, {"message": "text"}, {"message": {}}, {"message": {"data": ""}},
\* {"message": {"data": "m1"}}, ..., with the logger enabled for INFO or not
WebhookInputs ==
    {[has_message |-> FALSE, message_is_mapping |-> FALSE, data |-> Absent,
      info_logging |-> l] : l \in BOOLEAN}
    \cup {[has_message |-> TRUE, message_is_mapping |-> FALSE, data |-> Absent,
           info_logging |-> l] : l \in BOOLEAN}
    \cup {[has_message |-> TRUE, message_is_mapping |-> TRUE, data |-> d,
           info_logging |-> l] : d \in {Absent, <<>>, M1, M2}, l \in BOOLEAN}

Readings == {[ok |-> FALSE, pct |-> 0]} \cup {[ok |-> TRUE, pct |-> p] : p \in {10, 89, 90, 95}}

SystemReadings ==
    [disk : Readings, psutil : BOOLEAN, memory : Readings, raises : BOOLEAN]

\* one request to one of the other endpoints
ApiInit ==
    /\ openai_client = "none"
    /\ stage_faults = FALSE
    /\ SGIdle
    /\ PEIdle
    /\ CVIdle
    /\ AVIdle
    /\ DLIdle
    /\ MTIdle
    /\ emails_table = <<>>
    /\ videos_table = <<>>
    /\ unique_email_id = FALSE
    /\ rq_pc = "start"
    /\ rq_effects = <<>>
    /\ rq_response = Resp(0, [none |-> TRUE])
    /\ \/ /\ rq_endpoint = "process-emails"
          /\ rq_input \in ProcessEmailsInputs
          /\ supabase = "none"
       \/ /\ rq_endpoint = "fetch-and-process-gmail"
          /\ rq_input \in GmailInputs
          /\ supabase \in {"none", "connected"}
       \/ /\ rq_endpoint = "webhook/gmail"
          /\ rq_input \in WebhookInputs
          /\ supabase = "none"
       \/ /\ rq_endpoint = "health/system"
          /\ rq_input \in SystemReadings
          /\ supabase = "none"
       \/ /\ rq_endpoint = "health/dependencies"
          /\ rq_input \in [api_key : BOOLEAN, ffprobe : BOOLEAN, raises : BOOLEAN]
          /\ supabase = "none"
       \/ /\ rq_endpoint = "health/pipeline"
          /\ rq_input \in [parse_ok : BOOLEAN, raises : BOOLEAN]
          /\ supabase = "none"

ApiNext ==
    \/ PM_Begin
    \/ PM_Finish
    \/ GF_Begin
    \/ GF_Item
    \/ GF_Finish
    \/ WH_Request
    \/ WH_RunTask
    \/ Health_System
    \/ Health_Dependencies
    \/ Health_Pipeline

SpecApi == ApiInit /\ [][ApiNext]_vars

----------------------------------------------------------------------------
(* generate_script_with_retry as a loop, one attempt per step *)

SGInit ==
    /\ openai_client \in {"none", "raising", "live"}
    /\ stage_faults = FALSE
    /\ PEIdle
    /\ DBIdle
    /\ CVIdle
    /\ RQIdle
    /\ AVIdle
    /\ DLIdle
    /\ MTIdle
    /\ sg_pc = "loop"
    /\ sg_email \in ScriptEmails
    /\ sg_max_retries \in 0..MaxRetriesArg
    /\ sg_attempt = 0
    /\ sg_calls = 0
    /\ sg_log = <<>>
    /\ sg_values = <<>>
    /\ sg_model_calls = 0
    /\ sg_sleeps = <<>>
    /\ sg_result = Absent

\* mutant of SGAttemptStep: a sleep follows the last failed attempt as well
SGAttemptStepSleepsAfterLast(b) ==
    LET r == generate_script(sg_email, openai_client, b) IN
    /\ sg_calls' = sg_calls + 1
    /\ sg_log' = Append(sg_log, r.kind)
    /\ sg_values' = Append(sg_values, IF r.kind = "returned" THEN r.script ELSE Absent)
    /\ sg_model_calls' = sg_model_calls + (IF r.model_called THEN 1 ELSE 0)
    /\ IF r.kind = "returned"
       THEN /\ sg_result' = r.script
            /\ sg_pc' = "done"
            /\ UNCHANGED <<sg_attempt, sg_sleeps>>
       ELSE /\ sg_sleeps' = Append(sg_sleeps, Pow2(sg_attempt))
            /\ sg_attempt' = sg_attempt + 1
            /\ UNCHANGED <<sg_result, sg_pc>>

\* the body of the for loop: one generate_script call and what follows it
SGAttemptStep(b) ==
    LET r == generate_script(sg_email, openai_client, b) IN
    /\ sg_calls' = sg_calls + 1
    /\ sg_log' = Append(sg_log, r.kind)
    /\ sg_values' = Append(sg_values, IF r.kind = "returned" THEN r.script ELSE Absent)
    /\ sg_model_calls' = sg_model_calls + (IF r.model_called THEN 1 ELSE 0)
    /\ IF r.kind = "returned"
       THEN /\ sg_result' = r.script
            /\ sg_pc' = "done"
            /\ UNCHANGED <<sg_attempt, sg_sleeps>>
       ELSE /\ sg_sleeps' = IF sg_attempt < sg_max_retries - 1
                            THEN Append(sg_sleeps, Pow2(sg_attempt))
                            ELSE sg_sleeps
            /\ sg_attempt' = sg_attempt + 1
            /\ UNCHANGED <<sg_result, sg_pc>>

\* mutant of SGAttempt: the loop runs once more than max_retries
SGAttemptOneMore ==
    /\ sg_pc = "loop"
    /\ sg_attempt <= sg_max_retries
    /\ \E b \in ClientBehaviours(openai_client) : SGAttemptStep(b)
    /\ UNCHANGED <<envVars, avVars, dlVars, mtVars, dbVars, cvVars, rqVars, peVars, sg_email, sg_max_retries>>

SGAttempt ==
    /\ sg_pc = "loop"
    /\ sg_attempt < sg_max_retries
    /\ \E b \in ClientBehaviours(openai_client) : SGAttemptStep(b)
    /\ UNCHANGED <<envVars, avVars, dlVars, mtVars, dbVars, cvVars, rqVars, peVars, sg_email, sg_max_retries>>

\* the loop ran out: the fallback after all retries
SGExhausted ==
    /\ sg_pc = "loop"
    /\ sg_attempt >= sg_max_retries
    /\ sg_result' = ScriptFallback(sg_email)
    /\ sg_pc' = "done"
    /\ UNCHANGED <<envVars, avVars, dlVars, mtVars, dbVars, cvVars, rqVars, peVars, sg_email, sg_max_retries, sg_attempt, sg_calls,
                   sg_log, sg_values, sg_model_calls, sg_sleeps>>

SGNext == SGAttempt \/ SGExhausted

SpecScript == SGInit /\ [][SGNext]_vars

----------------------------------------------------------------------------
(* assemble_video: the calls of two requests in flight *)

AudioUrls(c) == {NoneAudio, EmptyAudio, DefaultAudioFile, SupabaseAudio(c)}

EmailValues == {NoneEmail, EmailWithoutId, EmailWithId("e1")}

ScriptValues == {<<>>, <<" ">>, M1}

\* the first request has any arguments; the second one is absent, or is
\* another request for a video (the same email id or not, a narration of
\* its own or the default audio)
AsmInit ==
    /\ openai_client = "none"
    /\ stage_faults = FALSE
    /\ SGIdle
    /\ PEIdle
    /\ DBIdle
    /\ CVIdle
    /\ RQIdle
    /\ DLIdle
    /\ MTIdle
    /\ fs \in SUBSET {DefaultAudioFile}
    /\ av_clock = 1
    /\ av_running = 0
    /\ \E a1 \in AudioUrls(1), e1 \in EmailValues, s1 \in ScriptValues,
          a2 \in {DefaultAudioFile, SupabaseAudio(2)},
          e2 \in {EmailWithId("e1"), EmailWithId("e2")}, present \in BOOLEAN :
         av = [c \in Calls |->
                 IF c = 1 THEN CallState("pending", a1, e1, s1)
                 ELSE CallState(IF present THEN "pending" ELSE "none", a2, e2, M1)]

AsmNext ==
    \E c \in Calls :
        \/ AV_Begin(c)
        \/ AV_Download(c)
        \/ AV_Background(c)
        \/ AV_Output(c)
        \/ AV_Ffmpeg(c)
        \/ AV_Upload(c)
        \/ AV_Thumbnail(c)
        \/ AV_Except(c)
        \/ AV_Finally(c)

SpecAssembly == AsmInit /\ [][AsmNext]_vars

----------------------------------------------------------------------------
(* Properties of process_email (Spec) *)

\* the positions in the call log of coroutine i of the calls of fn made by
\* the function named within
Idx(i, fn, within) ==
    {k \in 1..Len(calls[i]) : calls[i][k].fn = fn /\ calls[i][k].within = within}

PrimaryAssembly(i) == Idx(i, "assemble_video", "process_email")
FallbackCalls(i) == Idx(i, "get_fallback_video", "process_email")
FallbackAssembly(i) == Idx(i, "assemble_video", "get_fallback_video")

PrimaryAssemblyFailed(i) ==
    \E k \in PrimaryAssembly(i) : calls[i][k].result.kind = "raised"

PrimaryAssemblyError(i) ==
    \E k \in PrimaryAssembly(i) : calls[i][k].result = Raised("VideoAssemblyError")

FallbackAssemblyFailed(i) ==
    \E k \in FallbackAssembly(i) : calls[i][k].result.kind = "raised"

ParseFailed(i) ==
    \E k \in Idx(i, "parse_email", "process_email") :
        calls[i][k].result = Raised("EmailParseError")

StageRaised(i, fn) ==
    \E k \in Idx(i, fn, "process_email") : calls[i][k].result.kind = "raised"

\* C1: when the parse succeeded and the primary assemble_video call raised a
\* VideoAssemblyError, the request does not fail: get_fallback_video is called
\* exactly once, with the parsed email, and its result is the result of the
\* request.
C1_AssemblyErrorFallsBack ==
    \A i \in Tasks :
        (pc[i] = "done" /\ PrimaryAssemblyError(i)) =>
            /\ result[i].kind = "returned"
            /\ Cardinality(FallbackCalls(i)) = 1
            /\ \A k \in FallbackCalls(i) :
                  /\ calls[i][k].args = <<Raw("dict", parsed_email[i])>>
                  /\ calls[i][k].args[1].data = calls[i][1].result.value
                  /\ calls[i][k].result = result[i]

C1_Witness ==
    \E i \in Tasks :
        /\ pc[i] = "done"
        /\ PrimaryAssemblyError(i)
        /\ email_list[i].data["id"] = Absent
        /\ result[i] = Returned(VideoUrl(S_Uuid4))

BothAssembliesFailed(i) == PrimaryAssemblyFailed(i) /\ FallbackAssemblyFailed(i)

\* C2 as stated: the request is reported as a fatal failure, a 500 answer of
\* POST /process-email, if and only if both the primary assembly and the
\* fallback-video assembly failed (here already without any stage raising of
\* its own accord).
C2_FatalIffBothAssembliesFailed ==
    (entry = "http" /\ ~stage_faults /\ http_response # NoResponse) =>
        (http_response.status = 500 <=> BothAssembliesFailed(1))

\* C2 as amended: for a mapping input process_email never raises; when both
\* the primary and the fallback-video assembly failed it returns the static
\* path assets/fallback_video.mp4, and POST /process-email answers 200 with
\* success true and that path.
C2_BothFailedGivesStaticVideo ==
    /\ \A i \in Tasks :
          pc[i] = "done" =>
            /\ result[i].kind = "raised" <=> ~HasGet(email_list[i])
            /\ BothAssembliesFailed(i) => result[i] = Returned(StaticFallbackVideo)
    /\ (entry = "http" /\ http_response # NoResponse) =>
          /\ http_response.status = 200
          /\ http_response.success
          /\ http_response.video_url = result[1].value
          /\ BothAssembliesFailed(1) => http_response.video_url = StaticFallbackVideo

C2_Witness ==
    /\ entry = "http"
    /\ ~stage_faults
    /\ BothAssembliesFailed(1)
    /\ http_response = [status |-> 200, success |-> TRUE, video_url |-> StaticFallbackVideo]

\* the minimal email get_fallback_video builds from its argument
MinimalEmail(arg) ==
    MkEmail(Get(arg.data, "id", S_unknown), Get(arg.data, "from", S_UnknownSender),
            S_NewEmail, <<>>)

\* C3: every get_fallback_video call on a mapping returns (never raises),
\* makes exactly one assemble_video call, with the default audio path and the
\* minimal email {id, from, 'New Email', ''}, and returns that call's URL if it
\* succeeded and assets/fallback_video.mp4 if it failed in any way.
C3_FallbackVideoNeverRaises ==
    \A i \in Tasks : \A k \in FallbackCalls(i) :
        LET f == calls[i][k]
            inner == {j \in FallbackAssembly(i) :
                        j > k /\ \A m \in FallbackCalls(i) : m <= k \/ m > j}
        IN HasGet(f.args[1]) =>
            /\ f.result.kind = "returned"
            /\ inner = {k + 1}
            /\ calls[i][k + 1].args = <<DefaultAudio, MinimalEmail(f.args[1]), <<>>>>
            /\ calls[i][k + 1].result.kind = "returned" =>
                  f.result.value = calls[i][k + 1].result.value
            /\ calls[i][k + 1].result.kind = "raised" =>
                  f.result.value = StaticFallbackVideo

C3_Witness ==
    \E i \in Tasks : \E k \in FallbackCalls(i) :
        /\ calls[i][k].args[1].kind = "mapping"
        /\ calls[i][k + 1].result = Raised("Exception")
        /\ result[i] = Returned(StaticFallbackVideo)

\* the script process_email substitutes when the script stage raises
SubstituteScript(i) == S_NewEmailFrom \o Fmt(Get(parsed_email[i], "from", S_someone))

\* C4: a failure of the script stage or of the audio stage never aborts the
\* request: the failed script is replaced by 'New email from {from}', the
\* failed audio by assets/default_audio.mp3, the following stages run with the
\* replacement, and assemble_video is called exactly once on the primary path.
C4_ScriptAndAudioFailuresAreAbsorbed ==
    \A i \in Tasks :
        /\ StageRaised(i, "generate_script_with_retry") =>
              /\ script[i] = SubstituteScript(i)
              /\ pc[i] \in {"audio", "assemble", "fallback_assembly_failed",
                            "fallback_last", "done"}
        /\ StageRaised(i, "generate_audio") => audio_url[i] = DefaultAudio
        /\ (pc[i] = "done" /\ (StageRaised(i, "generate_script_with_retry")
                               \/ StageRaised(i, "generate_audio"))) =>
              /\ Idx(i, "generate_audio", "process_email") = {3}
              /\ calls[i][3].args = <<script[i]>>
              /\ PrimaryAssembly(i) = {4}
              /\ calls[i][4].args = <<audio_url[i], parsed_email[i], <<>>>>
              /\ result[i].kind = "returned"

C4_Witness ==
    \E i \in Tasks :
        /\ pc[i] = "done"
        /\ StageRaised(i, "generate_script_with_retry")
        /\ StageRaised(i, "generate_audio")
        /\ calls[i][3].args = <<S_NewEmailFrom \o ShortFrom>>
        /\ calls[i][4].result = Returned(VideoUrl(E1))
        /\ result[i] = Returned(VideoUrl(E1))

\* C5: when parse_email raises EmailParseError, the script, audio and primary
\* assembly stages are not run, get_fallback_video is called with the raw
\* input, and its result is the result of the request.
C5_ParseErrorSkipsToFallback ==
    \A i \in Tasks :
        ParseFailed(i) =>
            /\ Idx(i, "generate_script_with_retry", "process_email") = {}
            /\ Idx(i, "generate_audio", "process_email") = {}
            /\ PrimaryAssembly(i) = {}
            /\ pc[i] = "done" =>
                  /\ FallbackCalls(i) = {2}
                  /\ calls[i][2].args = <<email_list[i]>>
                  /\ result[i] = calls[i][2].result

C5_Witness ==
    \E i \in Tasks :
        /\ pc[i] = "done"
        /\ ParseFailed(i)
        /\ email_list[i].data["id"] = E1
        /\ result[i] = Returned(VideoUrl(E1))

\* C6 as stated: for an input that is present and is no mapping, process_email
\* does not raise: the invalid input is turned into a fallback-video attempt.
C6_InvalidInputIsNotPropagated ==
    \A i \in Tasks :
        (pc[i] = "done" /\ email_list[i].kind = "scalar") =>
            /\ result[i].kind = "returned"
            /\ FallbackCalls(i) # {}

StageOrder ==
    <<"parse_email", "generate_script_with_retry", "generate_audio", "assemble_video">>

\* what a finished stage handed on: its value, or the substitute for a failure
HandedOn(i, k) ==
    IF calls[i][k].result.kind = "returned" THEN calls[i][k].result.value
    ELSE IF k = 2 THEN SubstituteScript(i)
    ELSE DefaultAudio

\* C7: within one request the stages run in the order parse, script, audio,
\* assembly, each after the previous one has finished; the script stage gets
\* the parsed record, the audio stage exactly the script handed on by the
\* script stage, the assembly stage exactly the audio location handed on by the
\* audio stage and the record returned by the parse stage.
C7_StagesAreSequential ==
    \A i \in Tasks : \A k \in 1..Len(calls[i]) :
        LET c == calls[i][k] IN
        (c.within = "process_email" /\ c.fn # "get_fallback_video") =>
            /\ k <= Len(StageOrder)
            /\ c.fn = StageOrder[k]
            /\ k > 1 => calls[i][1].result.kind = "returned"
            /\ k = 1 => c.args = <<email_list[i]>>
            /\ k = 2 => c.args = <<calls[i][1].result.value, PipelineMaxRetries>>
            /\ k = 3 => c.args = <<HandedOn(i, 2)>>
            /\ k = 4 => c.args = <<HandedOn(i, 3), calls[i][1].result.value, <<>>>>

C7_Witness ==
    \E i \in Tasks :
        /\ pc[i] = "done"
        /\ Len(calls[i]) = 4
        /\ calls[i][2].result = Returned(clean_script(LongResponse))
        /\ calls[i][3].result = Returned(UploadedAudio)
        /\ calls[i][4].args[1] = UploadedAudio
        /\ result[i] = calls[i][4].result

----------------------------------------------------------------------------
(* Properties of process_email_batch (SpecBatch) *)

\* C8 as stated: process_email_batch never fails because an item failed: for
\* every list it returns total = len, successful + failed = total, failed = the
\* number of items that raised or returned nothing, success_rate =
\* successful/total (0 for no emails) and video_urls = the results of the
\* successful items in input order.
C8_BatchToleratesFailingItems ==
    batch_result # Pending =>
        LET n == Len(email_list)
            bad == {i \in 1..n : result[i].kind = "raised" \/ Falsy(result[i].value)}
            good == (1..n) \ bad
            r == batch_result.value
        IN /\ batch_result.kind = "returned"
           /\ r.total = n
           /\ r.successful + r.failed = n
           /\ r.failed = Cardinality(bad)
           /\ r.success_rate = IF n = 0 THEN <<0, 1>> ELSE <<Cardinality(good), n>>
           /\ Len(r.video_urls) = Cardinality(good)
           /\ \A j \in 1..Len(r.video_urls) : r.video_urls[j] = result[Nth(good, j)].value

----------------------------------------------------------------------------
(* Properties of POST /convert-emails-to-videos-batch (SpecEndpoint) *)

RowsOf(table, email_id) == {k \in 1..Len(table) : table[k].email_id = email_id}

\* C9 as stated: with the database connected, after the same body was posted
\* twice there is, for each of its emails, exactly one row of the emails table
\* and at most one row of the videos table with its email_id, and the second
\* answer reports success for it with the message that the video already
\* exists and a stored video_url.
C9_SecondCallReusesVideo ==
    (supabase = "connected" /\ Len(cv_responses) = 2 /\ cv_request # <<>>) =>
        \A j \in 1..Len(cv_request) :
            LET id == GetNone(cv_request[j], "email_id")
                second == cv_responses[2].results[j]
            IN id # NoneVal =>
                /\ Cardinality(RowsOf(emails_table, id)) = 1
                /\ Cardinality(RowsOf(videos_table, id)) <= 1
                /\ second.success
                /\ second.message = "Email processed, video already exists"
                /\ second.video_url # Absent

----------------------------------------------------------------------------
(* Properties of generate_script_with_retry (SpecScript) *)

AllGenerationFailed == \A k \in 1..Len(sg_log) : sg_log[k] = "GenerationFailed"

\* C10 as stated: with a model client that raises on every call,
\* generate_script_with_retry(email, max_retries=3) calls generate_script
\* exactly 3 times and returns 'New email from {from}: {subject}'[:150].
C10_RaisingClientThreeCalls ==
    (sg_pc = "done" /\ openai_client = "raising" /\ sg_max_retries = PipelineMaxRetries) =>
        /\ sg_calls = 3
        /\ sg_result = ScriptFallback(sg_email)

\* C10 as amended: when every generate_script call signals GenerationFailed
\* (no client configured, or an answer that fails validation),
\* generate_script_with_retry(email, max_retries=3) calls generate_script
\* exactly 3 times and returns 'New email from {from}: {subject}'[:150]; a
\* client that raises on every call is caught inside generate_script, which is
\* then called once and returns that same text (for an email with no body and
\* no or the default subject the client is not called and the text is
\* 'New email from {from}'[:150]).
C10_GenerationFailedThreeCalls ==
    (sg_pc = "done" /\ sg_max_retries = PipelineMaxRetries) =>
        /\ AllGenerationFailed =>
              /\ sg_calls = 3
              /\ sg_result = ScriptFallback(sg_email)
        /\ openai_client = "raising" =>
              /\ sg_calls = 1
              /\ sg_log = <<"returned">>
              /\ ~IsEmptyEmail(sg_email) =>
                    sg_model_calls = 1 /\ sg_result = ScriptFallback(sg_email)
              /\ IsEmptyEmail(sg_email) =>
                    /\ sg_model_calls = 0
                    /\ sg_result = Take(S_NewEmailFrom \o Fmt(Get(sg_email, "from", S_Unknown)),
                                        ScriptMaxLen)

C10_Witness ==
    /\ sg_pc = "done"
    /\ sg_max_retries = PipelineMaxRetries
    /\ openai_client = "live"
    /\ sg_log = <<"GenerationFailed", "GenerationFailed", "GenerationFailed">>
    /\ sg_model_calls = 3
    /\ sg_email = MkEmail(E1, LongFrom, LongSubject, SomeBody)
    /\ Len(sg_result) = ScriptMaxLen
    /\ sg_sleeps = <<1, 2>>

\* C11: generate_script_with_retry(email, max_retries=n) calls generate_script
\* at most n times and stops at the first call that does not signal
\* GenerationFailed: every call but the last signalled it; a last call that
\* returned ends the loop and its script is the result; when all n calls
\* signalled GenerationFailed the result is the fallback text, not an error.
C11_RetryStopsAtFirstSuccess ==
    /\ sg_calls <= sg_max_retries
    /\ Len(sg_log) = sg_calls
    /\ \A k \in 1..(sg_calls - 1) : sg_log[k] = "GenerationFailed"
    /\ sg_pc = "loop" => AllGenerationFailed
    /\ sg_pc = "done" =>
          IF AllGenerationFailed
          THEN sg_calls = sg_max_retries /\ sg_result = ScriptFallback(sg_email)
          ELSE sg_log[sg_calls] = "returned" /\ sg_result = sg_values[sg_calls]

C11_Witness ==
    /\ sg_pc = "done"
    /\ sg_max_retries = 3
    /\ sg_log = <<"GenerationFailed", "GenerationFailed", "returned">>
    /\ sg_result = GoodResponse
    /\ sg_sleeps = <<1, 2>>

\* C12: every script the script generator returns has between 1 and 150
\* characters: from the empty-email short-circuit, from a validated model
\* answer, from the fallback after a model error inside generate_script, and
\* from the fallback after the retries ran out, also for a long from and subject.
C12_ScriptLengthWithinBounds ==
    /\ \A k \in 1..Len(sg_values) :
          sg_values[k] # Absent =>
              Len(sg_values[k]) >= 1 /\ Len(sg_values[k]) <= ScriptMaxLen
    /\ sg_pc = "done" => Len(sg_result) >= 1 /\ Len(sg_result) <= ScriptMaxLen

C12_Witness ==
    /\ sg_pc = "done"
    /\ openai_client = "raising"
    /\ sg_email = MkEmail(E1, LongFrom, LongSubject, SomeBody)
    /\ sg_model_calls = 1
    /\ Len(sg_result) = ScriptMaxLen
    /\ Len(ScriptFallbackUntruncated(sg_email)) > ScriptMaxLen

----------------------------------------------------------------------------
(* Properties of the other endpoints of main.py (SpecApi) *)

\* C13 as stated: POST /process-emails with more than 50 emails is answered
\* with status 400 and process_email_batch is not called; with at most 50
\* emails the batch is processed.
C13_OversizedBatchRejectedWith400 ==
    (rq_endpoint = "process-emails" /\ rq_pc = "done") =>
        IF rq_input.n > BatchLimit
        THEN rq_response.status = 400 /\ EffectsOf("process_email_batch") = {}
        ELSE rq_response.status = 200 /\ Cardinality(EffectsOf("process_email_batch")) = 1

\* C14 as stated: when the Gmail message-list call answers with a non-OK
\* status, POST /fetch-and-process-gmail answers with that same status, and
\* makes no message-detail call, no database save and no video conversion.
C14_GmailListErrorStatusPropagated ==
    (rq_endpoint = "fetch-and-process-gmail" /\ rq_pc = "done"
        /\ rq_input.access_token /\ ~GmailOk(rq_input.list_status)) =>
        /\ rq_response.status = rq_input.list_status
        /\ EffectsOf("gmail_message") = {}
        /\ emails_table = <<>>
        /\ videos_table = <<>>
        /\ cv_results = <<>>

\* the payload carries a message identifier
CarriesIdentifier(input) ==
    input.has_message /\ input.message_is_mapping /\ ~Falsy(input.data)

\* C15 as stated: POST /webhook/gmail answers every payload with HTTP 200:
\* with status 'accepted' and exactly one background task scheduled for the
\* identifier when the payload carries one, with status 'ignored' and nothing
\* scheduled when it carries none, or with status 'error' and nothing
\* scheduled when the handling of a payload without identifier fails.
C15_WebhookAlwaysAcknowledges ==
    (rq_endpoint = "webhook/gmail" /\ rq_pc = "done") =>
        /\ rq_response.status = 200
        /\ IF CarriesIdentifier(rq_input)
           THEN /\ rq_response.body.status = "accepted"
                /\ Cardinality(EffectsOf("add_task")) = 1
                /\ \A k \in EffectsOf("add_task") : rq_effects[k].arg = rq_input.data
           ELSE /\ EffectsOf("add_task") = {}
                /\ rq_response.body.status =
                      IF LogExtraRaises(rq_input) \/ WebhookEmailId(rq_input).raised
                      THEN "error" ELSE "ignored"

HealthEndpoints == {"health/system", "health/dependencies", "health/pipeline"}

\* C16 as stated: each of the three health endpoints answers 503 when the
\* internal status is 'unhealthy' or computing it raised, and 200 when it is
\* 'degraded' or 'healthy'.
C16_HealthStatusMapping ==
    (rq_endpoint \in HealthEndpoints /\ rq_pc = "done") =>
        rq_response.status =
            IF rq_response.body.raised \/ rq_response.body.internal = "unhealthy"
            THEN 503 ELSE 200

Disk95Memory10(input) ==
    /\ ~input.raises
    /\ input.disk = [ok |-> TRUE, pct |-> 95]
    /\ input.psutil
    /\ input.memory = [ok |-> TRUE, pct |-> 10]

\* C17 as stated: check_system_health with 95% disk usage and 10% memory
\* usage gives the overall status 'unhealthy'.
C17_Disk95IsUnhealthy ==
    (rq_endpoint = "health/system" /\ rq_pc = "done" /\ Disk95Memory10(rq_input)) =>
        rq_response.body.internal = "unhealthy"

\* C17 as amended: check_system_health with 95% disk usage and 10% memory
\* usage gives the overall status 'degraded' (the disk check warns); the
\* status is 'unhealthy' exactly when reading the disk usage fails.
C17_Disk95IsDegraded ==
    (rq_endpoint = "health/system" /\ rq_pc = "done" /\ ~rq_input.raises) =>
        /\ Disk95Memory10(rq_input) =>
              rq_response.body.internal = "degraded" /\ rq_response.status = 200
        /\ rq_response.body.internal = "unhealthy" <=> ~rq_input.disk.ok

C17_Witness ==
    /\ rq_endpoint = "health/system"
    /\ rq_pc = "done"
    /\ Disk95Memory10(rq_input)
    /\ rq_response = Resp(200, [internal |-> "degraded", raised |-> FALSE])

----------------------------------------------------------------------------
(* Properties of assemble_video (SpecAssembly) *)

Listed(c) == {av[c].temp_files[i] : i \in DOMAIN av[c].temp_files}

\* the call c is over and no other call has begun
OnlyFinished(c) ==
    /\ av[c].pc = "done"
    /\ \A d \in Calls \ {c} : av[d].pc \in {"none", "pending"}

\* C18 as stated: when assemble_video has returned or raised, no file that
\* the call created (downloaded audio, output video, subtitle file,
\* thumbnail, placeholder background) exists any more.
C18_CreatedFilesAreDeleted ==
    \A c \in Calls : OnlyFinished(c) => av[c].created \cap fs = {}

\* what the cleanup step does delete: the files of temp_files
ListedFilesAreDeleted ==
    \A c \in Calls : OnlyFinished(c) => Listed(c) \cap fs = {}

\* C19 as stated: two calls of requests in flight together never list the
\* same path in temp_files, and a finished call has not listed (and so
\* unlinked) the audio a request still waiting for its call was given.
C19_TempFilesAreNotShared ==
    \A c \in Calls : \A d \in Calls \ {c} :
        /\ Listed(c) \cap Listed(d) = {}
        /\ (av[c].pc = "done" /\ av[d].pc = "pending") => av[d].audio_url \notin Listed(c)

\* C20 as stated: with an absent or empty audio URL, or an email that is
\* absent or has no id, assemble_video raises VideoAssemblyError and has made
\* no external call (download, background selection, media command, upload).
C20_InvalidInputsFailBeforeAnyCall ==
    \A c \in Calls :
        (av[c].pc = "done" /\ ~ValidVideoInputs(av[c].audio_url, av[c].email_data)) =>
            /\ av[c].result = [kind |-> "raised", value |-> "VideoAssemblyError"]
            /\ av[c].calls = <<>>

\* what does hold of invalid inputs: the call raises and makes no external call
InvalidInputsMakeNoCall ==
    \A c \in Calls :
        (av[c].pc = "done" /\ ~ValidVideoInputs(av[c].audio_url, av[c].email_data)) =>
            /\ av[c].result.kind = "raised"
            /\ av[c].calls = <<>>
            /\ av[c].created = {}

----------------------------------------------------------------------------
(* More properties of generate_script_with_retry (SpecScript) *)

FailedAttempts == Cardinality({i \in DOMAIN sg_log : sg_log[i] # "returned"})

Backoff(n) == [i \in 1..n |-> Pow2(i - 1)]

\* C25 as stated: with max_retries = 3 a delay of 2^attempt seconds follows
\* every failed attempt (1s, 2s and 4s after attempts 0, 1 and 2) and no
\* successful one.
C25_DelayAfterEveryFailedAttempt ==
    (sg_max_retries = PipelineMaxRetries /\ sg_pc = "done") =>
        sg_sleeps = Backoff(FailedAttempts)

\* C25 as amended: a delay of 2^attempt seconds follows a failed attempt
\* that is not the last one allowed (attempt < max_retries - 1) and nothing
\* else: with max_retries = 3 the delays are 1s and 2s after attempts 0 and
\* 1, none after attempt 2 and none after a success.
C25_DelayBetweenAttemptsOnly ==
    /\ sg_sleeps = Backoff(Min(FailedAttempts, sg_max_retries - 1))
    /\ (sg_max_retries = PipelineMaxRetries /\ sg_pc = "done" /\ FailedAttempts = 3) =>
           sg_sleeps = <<1, 2>>

C25_Witness ==
    /\ sg_max_retries = PipelineMaxRetries
    /\ sg_pc = "done"
    /\ sg_log = <<"GenerationFailed", "GenerationFailed", "GenerationFailed">>
    /\ sg_sleeps = <<1, 2>>

----------------------------------------------------------------------------
(* Properties of parse_email, as process_email calls it (Spec) *)

NonAbsent(v) == v # Absent /\ v # NoneVal

\* C24 as stated: for a dict input parse_email returns a record whose id,
\* from, subject and body are all present and not None, and whose body has
\* at most 500 characters.
C24_ParsedFieldsAreNeverAbsent ==
    \A i \in Tasks :
        (email_list[i].kind = "dict" /\ pc[i] # "start") =>
            /\ \A k \in {"id", "from", "subject", "body"} : NonAbsent(parsed_email[i][k])
            /\ Len(parsed_email[i]["body"]) <= BodyMaxLen

\* what does hold: a missing key gets its stand-in, an empty or missing id is
\* generated, and the body is a string of at most 500 characters
MissingFieldsGetStandIns ==
    \A i \in Tasks :
        (email_list[i].kind = "dict" /\ pc[i] # "start") =>
            LET raw == email_list[i].data
                parsed == parsed_email[i]
            IN /\ NonAbsent(parsed["id"]) /\ parsed["id"] # <<>>
               /\ raw["from"] = Absent => parsed["from"] = S_Unknown
               /\ raw["subject"] = Absent => parsed["subject"] = S_NoSubject
               /\ raw["body"] = Absent => parsed["body"] = <<>>
               /\ NonAbsent(parsed["body"])
               /\ Len(parsed["body"]) <= BodyMaxLen

----------------------------------------------------------------------------
(* The script on the primary path of process_email (Spec) *)

\* C30 as stated: the primary assemble_video call of process_email gets the
\* script of the script stage as its script argument, so that a non-empty
\* script is made into subtitles.
C30_ScriptReachesAssembly ==
    \A i \in Tasks : \A k \in PrimaryAssembly(i) :
        (~Falsy(script[i]) /\ Strip(script[i]) # <<>>) =>
            calls[i][k].args[3] = script[i]

----------------------------------------------------------------------------
(* The summary of POST /convert-emails-to-videos-batch (SpecEndpoint) *)

SuccessEntries(results) == {j \in 1..Len(results) : results[j].success}

\* results holds one entry per input email, in input order
OneEntryPerEmail(resp) ==
    /\ Len(resp.results) = Len(cv_request)
    /\ resp.total_emails = Len(cv_request)
    /\ \A j \in 1..Len(cv_request) :
          resp.results[j].email_id = GetNone(cv_request[j], "email_id")

\* C29 as stated: in every 200 answer results holds one entry per input email
\* in input order, successful_emails is the number of entries with success
\* true, and successful_emails + failed_emails = total_emails.
C29_SummaryMatchesResults ==
    \A n \in 1..Len(cv_responses) :
        LET resp == cv_responses[n] IN
        resp.status = 200 =>
            /\ OneEntryPerEmail(resp)
            /\ resp.successful_emails = Cardinality(SuccessEntries(resp.results))
            /\ resp.successful_emails + resp.failed_emails = resp.total_emails

\* what does hold: the entries and the sum, not the count of successes
SummaryEntriesAndSum ==
    \A n \in 1..Len(cv_responses) :
        LET resp == cv_responses[n] IN
        resp.status = 200 =>
            /\ OneEntryPerEmail(resp)
            /\ resp.successful_emails + resp.failed_emails = resp.total_emails

----------------------------------------------------------------------------
(* The files assemble_video removes (SpecAssembly) *)

\* C28 as stated: a step of an assemble_video call removes only files that
\* this call created; a file that was there before the call (the default
\* audio, a narration stored locally) is still there after it.
C28_OnlyOwnFilesAreRemoved ==
    [][\A f \in fs \ fs' : av_running # 0 /\ f \in av'[av_running].created]_vars

\* what does hold: a step removes only listed paths or the call's thumbnail
OnlyListedFilesAreRemoved ==
    [][\A f \in fs \ fs' :
          /\ av_running # 0
          /\ \/ f \in {av[av_running].temp_files[i] : i \in DOMAIN av[av_running].temp_files}
             \/ f.kind = "/tmp/thumb"]_vars

----------------------------------------------------------------------------
(* upload_to_storage, as assemble_video calls it (SpecAssembly) *)

\* C21 as stated: upload_to_storage never raises, and what it returns is the
\* public URL or a path under the assets directory at which a copy exists.
C21_UploadNeverRaises ==
    \A c \in Calls :
        /\ av[c].exc # "OSError"
        /\ av[c].video_url # NoPath =>
              \/ av[c].video_url.kind = "public_url/videos"
              \/ av[c].video_url.kind = "assets/videos" /\ av[c].video_url \in fs

\* what does hold: a location that is returned is usable
ReturnedLocationIsUsable ==
    \A c \in Calls :
        av[c].video_url # NoPath =>
            \/ av[c].video_url.kind = "public_url/videos"
            \/ av[c].video_url.kind = "assets/videos" /\ av[c].video_url \in fs

----------------------------------------------------------------------------
(* Properties of the database clients (SpecDb) *)

\* None, an empty list or False
AbsentResult(r) == r.kind = "None" \/ (r.kind \in {"list", "bool"} /\ r.n = 0)

\* C22: with no database client every operation of both client modules
\* returns None, an empty list or False, no request reaches the backend and
\* no row is written; POST /convert-emails-to-videos-batch then answers 200
\* with every item a save failure, none counted as successful and no video.
C22_UnconfiguredDatabaseIsNoOp ==
    supabase = "none" =>
        /\ AbsentResult(db_last.result)
        /\ db_requests = 0
        /\ emails_table = <<>> /\ videos_table = <<>>
        /\ \A n \in 1..Len(cv_responses) :
              LET resp == cv_responses[n] IN
              resp.status = 200 =>
                  /\ resp.successful_emails = 0
                  /\ resp.failed_emails = Len(cv_request)
                  /\ Len(resp.results) = Len(cv_request)
                  /\ \A j \in 1..Len(resp.results) :
                        /\ ~resp.results[j].success
                        /\ resp.results[j].error = "Failed to save email to database"
                        /\ resp.results[j].video_url = Absent
        /\ entry = "idle"

C22_Witness ==
    /\ supabase = "none"
    /\ db_count = MaxDbOps
    /\ db_last.op = "save_video"
    /\ Len(cv_responses) = 1
    /\ cv_responses[1].status = 200
    /\ Len(cv_responses[1].results) = 2

\* C23 as stated: the status of a row of the videos table changes only from
\* 'processing' to 'completed' or to 'failed'; a 'completed' or 'failed' row
\* keeps its status.
C23_StatusMovesOneWay ==
    [][\A k \in 1..Len(videos_table) :
          (/\ k <= Len(videos_table')
           /\ videos_table[k].status \in VideoStatuses
           /\ videos_table'[k].status # videos_table[k].status) =>
              /\ videos_table[k].status = "processing"
              /\ videos_table'[k].status \in {"completed", "failed"}]_vars

----------------------------------------------------------------------------
(* Properties of MetricsCollector (SpecMetrics) *)

\* the last n elements of s
LastN(s, n) == SubSeq(s, Len(s) - n + 1, Len(s))

\* C26: every histogram holds at most 1000 samples, and they are the most
\* recently recorded samples of its key in recording order; a step that
\* changes a histogram leaves counters and gauges as they are.
C26_HistogramKeepsLatestThousand ==
    /\ [](/\ DOMAIN mt_histograms = DOMAIN mt_recorded
          /\ \A key \in DOMAIN mt_histograms :
                /\ Len(mt_histograms[key]) <= HistogramCap
                /\ mt_histograms[key] =
                      LastN(mt_recorded[key], Min(Len(mt_recorded[key]), HistogramCap)))
    /\ [][mt_histograms' # mt_histograms => UNCHANGED <<mt_counters, mt_gauges>>]_vars

C26_Witness ==
    /\ "a" \in DOMAIN mt_histograms
    /\ Len(mt_recorded["a"]) = HistogramCap + 2
    /\ Len(mt_histograms["a"]) = HistogramCap
    /\ mt_histograms["a"][HistogramCap] = 3
    /\ mt_histograms["a"][1] # mt_recorded["a"][1]

\* v is a nearest-rank value of values at the 0-based rank index
NearestRank(v, values, index) ==
    /\ v \in Samples(values)
    /\ Cardinality({j \in DOMAIN values : values[j] < v}) <= index
    /\ index < Cardinality({j \in DOMAIN values : values[j] <= v})

\* C27: for every non-empty histogram get_stats reports as p95 and p99 the
\* samples at rank min(floor(count * p), count - 1) of the ascending order,
\* so min <= p95 <= p99 <= max; for the ten values 1..10 p95 is 10.
C27_PercentilesAreNearestRank ==
    [][mt_stats' # mt_stats =>
          /\ DOMAIN mt_stats'.histograms = {k \in DOMAIN mt_histograms : mt_histograms[k] # <<>>}
          /\ \A key \in DOMAIN mt_stats'.histograms :
                LET st == mt_stats'.histograms[key]
                    values == mt_histograms[key]
                    n == Len(values)
                IN /\ st.count = n
                   /\ NearestRank(st.p95, values, Min((n * 95) \div 100, n - 1))
                   /\ NearestRank(st.p99, values, Min((n * 99) \div 100, n - 1))
                   /\ st.min <= st.p95 /\ st.p95 <= st.p99 /\ st.p99 <= st.max
                   /\ Samples(values) = 1..10 /\ n = 10 => st.p95 = 10]_vars

C27_Witness ==
    /\ "a" \in DOMAIN mt_stats.histograms
    /\ mt_stats.histograms["a"].count = 10
    /\ mt_stats.histograms["a"].p95 = 10
    /\ mt_histograms["a"] = TenValues

====
